---------------------------- MODULE Spec2Model ----------------------------
(***************************************************************************)
(* drizzle-graphql: the three dialect builders (pg, mysql, sqlite).        *)
(*                                                                         *)
(* generateSchemaData turns a schema (tables and relations declarations)   *)
(* into a map of queries and a map of mutations; every entry carries a     *)
(* resolver.  A resolver runs synchronously up to its single `await` on    *)
(* the query it built, and continues when the executor settles the query.  *)
(*                                                                         *)
(* Strings are sequences of symbols.  A symbol is either a table key       *)
(* ("users", "Users", "posts", "Posts": Upper/Lower relate them by the     *)
(* case of their first letter) or a literal fragment of the source         *)
(* ("Single", "RelationArgs", "insertInto", ...).  Concatenation of        *)
(* strings is \o, so two generated names are equal in the model exactly    *)
(* when the program's template strings are equal.                          *)
(***************************************************************************)
EXTENDS Integers, Sequences, FiniteSets, TLC

\* How many resolver invocations one run serves.
MaxRequests == 2

\* The largest relationsDepthLimit a run of type generation is given.
MaxDepthLimit == 2
Dialects == {"pg", "mysql", "sqlite"}

-----------------------------------------------------------------------------
(* Case operations (caseOps / case-ops) *)

Upper(c) == CASE c = "users" -> "Users"
              [] c = "posts" -> "Posts"
              [] OTHER -> c

Lower(c) == CASE c = "Users" -> "users"
              [] c = "Posts" -> "posts"
              [] OTHER -> c

capitalize(s) == IF s = <<>> THEN s ELSE <<Upper(s[1])>> \o Tail(s)

uncapitalize(s) == IF s = <<>> THEN s ELSE <<Lower(s[1])>> \o Tail(s)

\* pg builder: camelize / pascalize of a one-word key
camelize(s) == uncapitalize(s)

pascalize(s) == capitalize(s)

-----------------------------------------------------------------------------
(* Schemas: Object.entries(schema), in insertion order.  A table entry is  *)
(* identified by its key; a Relations entry names its owning table and     *)
(* lists its relations (name, referenced table, cardinality).              *)

Tbl(k) == [key |-> k, kind |-> "table", table |-> k, config |-> <<>>]

Rel(k, owner, cfg) == [key |-> k, kind |-> "relations", table |-> owner, config |-> cfg]

One(n, target) == [name |-> n, referencedTable |-> target, many |-> FALSE]

Many(n, target) == [name |-> n, referencedTable |-> target, many |-> TRUE]

users == <<"users">>
posts == <<"posts">>
Users == <<"Users">>
usersSingle == <<"users", "Single">>

\* users/posts with users.posts (many) and posts.author (one)
SchemaBlog ==
    << Tbl(users), Tbl(posts),
       Rel(<<"usersRelations">>, users, << Many(<<"posts">>, posts) >>),
       Rel(<<"postsRelations">>, posts, << One(<<"author">>, users) >>) >>

\* one table, no relations declared
SchemaPlain == << Tbl(users) >>

\* a table `users` next to a table `usersSingle`
SchemaSingle == << Tbl(users), Tbl(usersSingle) >>

\* two keys that differ only in the case of their first letter
SchemaCase == << Tbl(Users), Tbl(users) >>

\* a self-referencing table whose relation is named `Single`
SchemaSelf ==
    << Tbl(users),
       Rel(<<"usersRelations">>, users, << One(<<"Single">>, users) >>) >>

\* nothing but a value that is no table
SchemaEmpty == << >>

\* users.posts refers to a table that is not among the schema's tables
SchemaDanglingTarget ==
    << Tbl(users),
       Rel(<<"usersRelations">>, users, << Many(<<"posts">>, posts) >>) >>

\* a Relations declaration whose owning table is not among the schema's tables
SchemaDanglingOwner ==
    << Tbl(users),
       Rel(<<"postsRelations">>, posts, << One(<<"author">>, users) >>) >>

Schemas ==
    { SchemaBlog, SchemaPlain, SchemaSingle, SchemaCase, SchemaSelf, SchemaEmpty,
      SchemaDanglingTarget, SchemaDanglingOwner }

TableKeys(schema) == { schema[i].key : i \in { j \in DOMAIN schema : schema[j].kind = "table" } }


tableEntries(schema) == SelectSeq(schema, LAMBDA e : e.kind = "table")

relationsEntries(schema) == SelectSeq(schema, LAMBDA e : e.kind = "relations")

\* Index of the last Relations entry owned by table t, 0 when none:
\* Object.fromEntries keeps the last entry of a repeated key.
LastRelationsIndex(schema, t) ==
    LET hits == { i \in DOMAIN schema : schema[i].kind = "relations" /\ schema[i].table = t }
    IN  IF hits = {} THEN 0 ELSE CHOOSE i \in hits : \A j \in hits : j <= i

\* relations[tableName] is undefined for a table without a Relations entry
HasRelations(schema, t) == LastRelationsIndex(schema, t) # 0

\* Object.entries(relations[tableName])
RelationsOf(schema, t) ==
    IF HasRelations(schema, t) THEN schema[LastRelationsIndex(schema, t)].config ELSE <<>>

\* tableEntries.find(... === value.table)![0] reads [0] of undefined
DanglingOwner(schema) ==
    \E i \in DOMAIN schema :
        schema[i].kind = "relations" /\ schema[i].table \notin TableKeys(schema)

\* tableEntries.find(... === innerRelValue.referencedTable)![0] (mysql, sqlite)
DanglingTarget(schema) ==
    \E i \in DOMAIN schema :
        /\ schema[i].kind = "relations"
        /\ \E k \in DOMAIN schema[i].config :
              schema[i].config[k].referencedTable \notin TableKeys(schema)

-----------------------------------------------------------------------------
(* Thrown values.  `typeof` and `hasMessage` are what the catch blocks of  *)
(* the mysql and sqlite builders test.                                     *)

NoError == [cls |-> "none", typeof |-> "undefined", hasMessage |-> FALSE, message |-> <<>>]

JsError(msg) == [cls |-> "Error", typeof |-> "object", hasMessage |-> TRUE, message |-> msg]

GraphQLError(msg) == [cls |-> "GraphQLError", typeof |-> "object", hasMessage |-> TRUE, message |-> msg]

TypeError(msg) == [cls |-> "TypeError", typeof |-> "object", hasMessage |-> TRUE, message |-> msg]

MsgNoTablesPg == <<"Unable to extract tables from drizzle instance.">>
MsgNoTables == <<"Drizzle-GraphQL Error: No tables detected in Drizzle-ORM's database instance.">>
MsgUndefinedIndex == <<"Cannot read properties of undefined (reading '0')">>
MsgNoValues == <<"No values were provided!">>
MsgNoSet == <<"Unable to update with no values specified!">>

MsgTableNotFoundPg(t) == <<"Table ">> \o t \o <<" not found in drizzle instance.">>

MsgTableNotFound(t) == <<"Drizzle-GraphQL Error: Table ">> \o t \o <<" not found in drizzle instance.">>

\* a thrown value that reports a table missing from the drizzle instance
IsTableNotFound(e) ==
    /\ e.hasMessage
    /\ Len(e.message) >= 2
    /\ e.message[Len(e.message)] = " not found in drizzle instance."
    /\ e.message[1] \in {"Table ", "Drizzle-GraphQL Error: Table "}

-----------------------------------------------------------------------------
(* Generation: one operator per generate* function, returning the name,    *)
(* the argument map (its keys), the input types it creates and the value   *)
(* it throws.                                                              *)

\* new GraphQLInputObjectType for the relations argument of a pg select:
\* one per relation (`${queryName}${relName}RelationArgs`), built while the
\* fields of the outer `${queryName}RelationArgs` are evaluated.
\* as RelationArgsTypes, but every relation's nested arguments offer `limit`
RelationArgsTypesAllLimit(queryName, rels) ==
    [ k \in 1..Len(rels) |->
        [ name   |-> queryName \o rels[k].name \o <<"RelationArgs">>,
          fields |-> {"where", "orderBy", "offset", "limit"} ] ]
    \o << [ name |-> queryName \o <<"RelationArgs">>,
            fields |-> { rels[k].name : k \in 1..Len(rels) } ] >>

RelationArgsTypes(queryName, rels) ==
    [ k \in 1..Len(rels) |->
        [ name   |-> queryName \o rels[k].name \o <<"RelationArgs">>,
          fields |-> IF rels[k].many
                     THEN {"where", "orderBy", "offset", "limit"}
                     ELSE {"where", "orderBy", "offset"} ] ]
    \o << [ name |-> queryName \o <<"RelationArgs">>,
            fields |-> { rels[k].name : k \in 1..Len(rels) } ] >>

generateSelectArrayPg(dbq, schema, t) ==
    LET queryName == camelize(t)
        withRel   == HasRelations(schema, t)
    IN  [ name   |-> queryName,
          table  |-> t,
          op     |-> "selectArray",
          throws |-> IF t \in dbq THEN NoError ELSE JsError(MsgTableNotFoundPg(t)),
          types  |-> IF withRel THEN RelationArgsTypes(queryName, RelationsOf(schema, t)) ELSE <<>>,
          args   |-> IF withRel
                     THEN {"offset", "limit", "orderBy", "where", "relations"}
                     ELSE {"offset", "limit", "orderBy", "where"} ]

generateSelectSinglePg(dbq, schema, t) ==
    LET queryName == camelize(t) \o <<"Single">>
        withRel   == HasRelations(schema, t)
    IN  [ name   |-> queryName,
          table  |-> t,
          op     |-> "selectSingle",
          throws |-> IF t \in dbq THEN NoError ELSE JsError(MsgTableNotFoundPg(t)),
          types  |-> IF withRel THEN RelationArgsTypes(queryName, RelationsOf(schema, t)) ELSE <<>>,
          args   |-> IF withRel
                     THEN {"offset", "orderBy", "where", "relations"}
                     ELSE {"offset", "limit", "orderBy", "where"} ]

generateInsertArrayPg(t) ==
    [ name |-> <<"insertInto">> \o pascalize(t), table |-> t, op |-> "insertArray",
      throws |-> NoError, types |-> <<>>, args |-> {"values"} ]

generateInsertSinglePg(t) ==
    [ name |-> <<"insertInto">> \o pascalize(t) \o <<"Single">>, table |-> t, op |-> "insertSingle",
      throws |-> NoError, types |-> <<>>, args |-> {"values"} ]

generateUpdatePg(t) ==
    [ name |-> <<"update">> \o pascalize(t), table |-> t, op |-> "update",
      throws |-> NoError, types |-> <<>>, args |-> {"set", "where"} ]

generateDeletePg(t) ==
    [ name |-> <<"deleteFrom">> \o pascalize(t), table |-> t, op |-> "delete",
      throws |-> NoError, types |-> <<>>, args |-> {"where"} ]

\* mysql builder (its delete is named `deleteFrom${tableName}`, the key as it is)
generateSelectArrayMysql(t) ==
    [ name |-> uncapitalize(t), table |-> t, op |-> "selectArray",
      throws |-> NoError, types |-> <<>>, args |-> {"offset", "limit", "orderBy", "where"} ]

generateSelectSingleMysql(t) ==
    [ name |-> uncapitalize(t) \o <<"Single">>, table |-> t, op |-> "selectSingle",
      throws |-> NoError, types |-> <<>>, args |-> {"offset", "orderBy", "where"} ]

generateInsertArrayMysql(t) ==
    [ name |-> <<"insertInto">> \o capitalize(t), table |-> t, op |-> "insertArray",
      throws |-> NoError, types |-> <<>>, args |-> {"values"} ]

generateInsertSingleMysql(t) ==
    [ name |-> <<"insertInto">> \o capitalize(t) \o <<"Single">>, table |-> t, op |-> "insertSingle",
      throws |-> NoError, types |-> <<>>, args |-> {"values"} ]

generateUpdateMysql(t) ==
    [ name |-> <<"update">> \o capitalize(t), table |-> t, op |-> "update",
      throws |-> NoError, types |-> <<>>, args |-> {"set", "where"} ]

generateDeleteMysql(t) ==
    [ name |-> <<"deleteFrom">> \o t, table |-> t, op |-> "delete",
      throws |-> NoError, types |-> <<>>, args |-> {"where"} ]

\* sqlite builder
generateSelectArraySqlite(t) ==
    [ name |-> uncapitalize(t), table |-> t, op |-> "selectArray",
      throws |-> NoError, types |-> <<>>, args |-> {"offset", "limit", "orderBy", "where"} ]

generateSelectSingleSqlite(t) ==
    [ name |-> uncapitalize(t) \o <<"Single">>, table |-> t, op |-> "selectSingle",
      throws |-> NoError, types |-> <<>>, args |-> {"offset", "orderBy", "where"} ]

generateInsertArraySqlite(t) ==
    [ name |-> <<"insertInto">> \o capitalize(t), table |-> t, op |-> "insertArray",
      throws |-> NoError, types |-> <<>>, args |-> {"values"} ]

generateInsertSingleSqlite(t) ==
    [ name |-> <<"insertInto">> \o capitalize(t) \o <<"Single">>, table |-> t, op |-> "insertSingle",
      throws |-> NoError, types |-> <<>>, args |-> {"values"} ]

generateUpdateSqlite(t) ==
    [ name |-> <<"update">> \o capitalize(t), table |-> t, op |-> "update",
      throws |-> NoError, types |-> <<>>, args |-> {"set", "where"} ]

generateDeleteSqlite(t) ==
    [ name |-> <<"deleteFrom">> \o capitalize(t), table |-> t, op |-> "delete",
      throws |-> NoError, types |-> <<>>, args |-> {"where"} ]

\* The six generate* calls of one pass of the loop over the tables, in the
\* order the source makes them.
GeneratedFor(d, dbq, schema, t) ==
    CASE d = "pg" ->
           << generateSelectArrayPg(dbq, schema, t), generateSelectSinglePg(dbq, schema, t),
              generateInsertArrayPg(t), generateInsertSinglePg(t),
              generateUpdatePg(t), generateDeletePg(t) >>
      [] d = "mysql" ->
           << generateSelectArrayMysql(t), generateSelectSingleMysql(t),
              generateInsertArrayMysql(t), generateInsertSingleMysql(t),
              generateUpdateMysql(t), generateDeleteMysql(t) >>
      [] OTHER ->
           << generateSelectArraySqlite(t), generateSelectSingleSqlite(t),
              generateInsertArraySqlite(t), generateInsertSingleSqlite(t),
              generateUpdateSqlite(t), generateDeleteSqlite(t) >>

\* Every generate* result of the loop over Object.entries(gqlSchemaTypes)
AllGenerated(d, dbq, schema) ==
    LET tabs == tableEntries(schema)
    IN  [ k \in 1..(6 * Len(tabs)) |->
            GeneratedFor(d, dbq, schema, tabs[((k - 1) \div 6) + 1].key)[((k - 1) % 6) + 1] ]

\* map[name] = entry, for each entry in turn: the last assignment of a name stays
LastWins(assigned) ==
    [ nm \in { assigned[i].name : i \in DOMAIN assigned } |->
        LET hits == { i \in DOMAIN assigned : assigned[i].name = nm }
        IN  assigned[CHOOSE i \in hits : \A j \in hits : j <= i] ]

RECURSIVE Flatten(_)
Flatten(ss) == IF ss = <<>> THEN <<>> ELSE Head(ss) \o Flatten(Tail(ss))

\* generateTableTypes: the types of one table, named after the capitalized key
TableTypeNames(t) ==
    [ insertInput  |-> capitalize(t) \o <<"InsertInput">>,
      updateInput  |-> capitalize(t) \o <<"UpdateInput">>,
      tableFilters |-> capitalize(t) \o <<"Filters">>,
      tableOrder   |-> capitalize(t) \o <<"OrderBy">>,
      selectSingleOutput    |-> capitalize(t) \o <<"SelectItem">>,
      singleTableItemOutput |-> capitalize(t) \o <<"Item">> ]

\* [insertInput, updateInput, tableFilters, tableOrder].forEach((e) => (inputs[e.name] = e))
InputsAssigned(schema) ==
    LET tabs == tableEntries(schema)
    IN  Flatten([ i \in 1..Len(tabs) |->
            LET t == tabs[i].key  n == TableTypeNames(t)
            IN  << [name |-> n.insertInput,  type |-> <<t, "insertInput">>],
                   [name |-> n.updateInput,  type |-> <<t, "updateInput">>],
                   [name |-> n.tableFilters, type |-> <<t, "tableFilters">>],
                   [name |-> n.tableOrder,   type |-> <<t, "tableOrder">>] >> ])

\* outputs[selectSingleOutput.name] = selectSingleOutput (and, sqlite, the item type)
OutputsAssigned(d, schema) ==
    LET tabs == tableEntries(schema)
    IN  (IF d = "mysql"
         THEN << [name |-> <<"MutationReturn">>, type |-> << <<>>, "mutationReturnType" >>] >>
         ELSE <<>>)
        \o Flatten([ i \in 1..Len(tabs) |->
            LET t == tabs[i].key  n == TableTypeNames(t)
            IN  << [name |-> n.selectSingleOutput, type |-> <<t, "selectSingleOutput">>] >>
                \o (IF d = "sqlite"
                    THEN << [name |-> n.singleTableItemOutput, type |-> <<t, "singleTableItemOutput">>] >>
                    ELSE <<>>) ])

IsQuery(g) == g.op \in {"selectArray", "selectSingle"}

IsMutation(g) == ~IsQuery(g)

NotGenerated ==
    [ status |-> "none", error |-> NoError, queries |-> <<>>, mutations |-> <<>>,
      assigned |-> <<>>, created |-> <<>>, inputs |-> <<>>, types |-> <<>> ]

GenerationFailed(e) == [NotGenerated EXCEPT !.status = "failed", !.error = e]

\* The part of generateSchemaData after the tables and relations are extracted
AssembleSchemaData(d, dbq, schema) ==
    LET all    == AllGenerated(d, dbq, schema)
        throwing == { k \in DOMAIN all : all[k].throws # NoError }
    IN  IF throwing # {}
        THEN GenerationFailed(all[CHOOSE k \in throwing : \A j \in throwing : k <= j].throws)
        ELSE [ status    |-> "ok",
               error     |-> NoError,
               queries   |-> LastWins(SelectSeq(all, IsQuery)),
               mutations |-> LastWins(SelectSeq(all, IsMutation)),
               assigned  |-> all,
               created   |-> Flatten([ k \in DOMAIN all |-> all[k].types ]),
               inputs    |-> InputsAssigned(schema),
               types     |-> OutputsAssigned(d, schema) ]

generateSchemaDataPg(dbq, schema) ==
    IF tableEntries(schema) = <<>> THEN GenerationFailed(JsError(MsgNoTablesPg))
    ELSE IF DanglingOwner(schema) THEN GenerationFailed(TypeError(MsgUndefinedIndex))
    ELSE AssembleSchemaData("pg", dbq, schema)

generateSchemaDataMysql(dbq, schema) ==
    IF tableEntries(schema) = <<>> THEN GenerationFailed(JsError(MsgNoTables))
    ELSE IF DanglingOwner(schema) \/ DanglingTarget(schema)
         THEN GenerationFailed(TypeError(MsgUndefinedIndex))
    ELSE AssembleSchemaData("mysql", dbq, schema)

generateSchemaDataSqlite(dbq, schema) ==
    IF tableEntries(schema) = <<>> THEN GenerationFailed(JsError(MsgNoTables))
    ELSE IF DanglingOwner(schema) \/ DanglingTarget(schema)
         THEN GenerationFailed(TypeError(MsgUndefinedIndex))
    ELSE AssembleSchemaData("sqlite", dbq, schema)

-----------------------------------------------------------------------------
(* Request arguments.  Every table has the columns `id` (integer) and      *)
(* `big` (a 64-bit integer, served as a string).                           *)

Columns == {"id", "big"}

RowIds == {1, 2}

AbsentWhere == [present |-> FALSE, column |-> "", eq |-> 0]

\* where: absent, {id: {eq: i}}, or a filter on a column the table lacks
Wheres ==
    {AbsentWhere}
    \cup { [present |-> TRUE, column |-> "id", eq |-> i] : i \in RowIds }
    \cup { [present |-> TRUE, column |-> "nope", eq |-> 1] }

AbsentOrder == [present |-> FALSE, column |-> "", direction |-> ""]

Orders ==
    { AbsentOrder,
      [present |-> TRUE, column |-> "id", direction |-> "desc"],
      [present |-> TRUE, column |-> "nope", direction |-> "asc"] }

AbsentInt == [present |-> FALSE, value |-> 0]

Limits == { AbsentInt, [present |-> TRUE, value |-> 1] }

\* offset and limit are GraphQLInt: any 32-bit integer, a negative one included
Pagings == { AbsentInt, [present |-> TRUE, value |-> 1], [present |-> TRUE, value |-> -1] }

\* the names of the relation fields a selection set can ask for
RelationNames == { <<"posts">>, <<"author">>, <<"Single">> }

\* args.relations (pg): nothing, or the nested arguments of one relation
RelationArg(n, o, l) == [name |-> n, offset |-> o, limit |-> l]

RelationsArgs ==
    { <<>> } \cup { << RelationArg(n, o, l) >> : n \in RelationNames, o \in Limits, l \in Limits }

\* the relation fields of the selection set: none, or one
Selections == { {} } \cup { {n} : n \in RelationNames }

\* A field map as the GraphQL layer hands it over: a key may be present with
\* the value undefined.
Field(k, v) == [key |-> k, defined |-> TRUE, value |-> v]

UndefinedField(k) == [key |-> k, defined |-> FALSE, value |-> [t |-> "undefined", v |-> 0]]

\* GraphQL values: an Int, or a String of decimal digits
Int32(n) == [t |-> "number", v |-> n]

Str(n) == [t |-> "string", v |-> n]

\* `set` of update: writes big = 2
Sets == { <<>>, << UndefinedField("big") >>, << Field("big", Str(2)) >> }

\* one row of `values`: the id, and big = 3
RowInput(i) == << Field("id", Int32(i)), Field("big", Str(3)) >>

RowInputs == { RowInput(i) : i \in RowIds }

\* `values` of insert-many: empty, one row, or the rows 1 and 2
ValuesLists == { <<>>, << RowInput(1) >>, << RowInput(1), RowInput(2) >> }

\* the request context: with or without a database of its own
Contexts == {"plain", "withDb"}

NoArgs ==
    [ where |-> AbsentWhere, orderBy |-> AbsentOrder, limit |-> AbsentInt,
      offset |-> AbsentInt, relations |-> <<>>, selection |-> {},
      set |-> <<>>, values |-> <<>>, context |-> "plain" ]

ArgsOf(op) ==
    CASE op \in {"selectArray", "selectSingle"} ->
           { [NoArgs EXCEPT !.where = w, !.orderBy = o, !.limit = l] :
                w \in Wheres, o \in Orders, l \in Limits }
           \cup { [NoArgs EXCEPT !.where = w, !.context = c] : w \in Wheres, c \in Contexts }
           \cup { [NoArgs EXCEPT !.offset = o, !.limit = l] : o \in Pagings, l \in Pagings }
           \cup { [NoArgs EXCEPT !.relations = r, !.selection = sel] :
                     r \in RelationsArgs, sel \in Selections }
      [] op = "update" ->
           { [NoArgs EXCEPT !.set = st, !.where = w, !.context = c] :
                st \in Sets, w \in Wheres, c \in Contexts }
      [] op = "delete" ->
           { [NoArgs EXCEPT !.where = w, !.context = c] : w \in Wheres, c \in Contexts }
      [] op = "insertArray" ->
           { [NoArgs EXCEPT !.values = v, !.context = c] : v \in ValuesLists, c \in Contexts }
      [] OTHER ->
           { [NoArgs EXCEPT !.values = v, !.context = c] : v \in RowInputs, c \in Contexts }

\* The optional arguments a request carries; the GraphQL layer accepts a
\* request only when the field's argument map declares them.
Supplied(a) ==
    (IF a.where.present THEN {"where"} ELSE {})
    \cup (IF a.orderBy.present THEN {"orderBy"} ELSE {})
    \cup (IF a.limit.present THEN {"limit"} ELSE {})
    \cup (IF a.offset.present THEN {"offset"} ELSE {})
    \cup (IF a.relations # <<>> THEN {"relations"} ELSE {})

\* the nested arguments a relation's entry of args.relations carries
SuppliedNested(r) ==
    (IF r.limit.present THEN {"limit"} ELSE {})
    \cup (IF r.offset.present THEN {"offset"} ELSE {})

-----------------------------------------------------------------------------
(* Helpers of common.ts and data-mappers.ts                                *)

MsgUnknownColumn(c) == <<"Unknown column: ", c>>

\* extractFilters: the native predicate of a filter object; a column the
\* table lacks is an argument error
extractFiltersThrows(w) ==
    IF w.column \in Columns THEN NoError ELSE GraphQLError(MsgUnknownColumn(w.column))

extractFilters(w) == << "eq", w.column, w.eq >>

\* extractOrderBy: the ordered (column, direction) pairs
extractOrderByThrows(o) ==
    IF o.column \in Columns THEN NoError ELSE GraphQLError(MsgUnknownColumn(o.column))

extractOrderBy(o) == << <<o.direction, o.column>> >>

\* remapFromGraphQLSingleInput: keys whose value is undefined are deleted,
\* the others are converted to the column's native value (the digits of
\* `big` become a number)
remapFromGraphQLSingleInput(fields) ==
    LET kept == SelectSeq(fields, LAMBDA f : f.defined)
    IN  [ k \in 1..Len(kept) |-> [ column |-> kept[k].key, value |-> kept[k].value.v ] ]

remapFromGraphQLArrayInput(values) ==
    [ k \in 1..Len(values) |-> remapFromGraphQLSingleInput(values[k]) ]

\* A native row is [id, big, rels]: big is a number, and rels holds, for
\* every relation the query asked for, what the executor found: the related
\* rows of a relation of cardinality many (an array, empty when none), the
\* related row of a relation of cardinality one (no row: null).
Related(n, isMany, found) == [name |-> n, many |-> isMany, rows |-> found]

\* as remapToGraphQLSingleOutput, but a relation whose value is null or an
\* empty array is left out of the item
RECURSIVE remapToGraphQLSingleOutputCompact(_)
remapToGraphQLSingleOutputCompact(row) ==
    LET kept == SelectSeq(row.rels, LAMBDA r : r.rows # <<>>)
    IN  [ id   |-> row.id,
          big  |-> ToString(row.big),
          rels |-> [ k \in DOMAIN kept |->
                       [ name   |-> kept[k].name,
                         many   |-> kept[k].many,
                         isNull |-> FALSE,
                         items  |-> [ j \in DOMAIN kept[k].rows |->
                                        remapToGraphQLSingleOutputCompact(kept[k].rows[j]) ] ] ] ]

\* The GraphQL item of a native row: big as a string, and every relation of
\* the row under its name: null for a relation of cardinality one without a
\* row, the list of the remapped rows for a relation of cardinality many (the
\* empty list when there are none), the remapped row otherwise.
RECURSIVE remapToGraphQLSingleOutput(_)
remapToGraphQLSingleOutput(row) ==
    [ id   |-> row.id,
      big  |-> ToString(row.big),
      rels |-> [ k \in DOMAIN row.rels |->
                   [ name   |-> row.rels[k].name,
                     many   |-> row.rels[k].many,
                     isNull |-> ~row.rels[k].many /\ row.rels[k].rows = <<>>,
                     items  |-> [ j \in DOMAIN row.rels[k].rows |->
                                    remapToGraphQLSingleOutput(row.rels[k].rows[j]) ] ] ] ]

remapToGraphQLArrayOutput(rows) == [ k \in 1..Len(rows) |-> remapToGraphQLSingleOutput(rows[k]) ]

\* databaseOfContext: the context's database when it has one
databaseOfContext(context) == IF context = "withDb" THEN "context" ELSE "captured"

-----------------------------------------------------------------------------
(* Resolvers.  A resolver's synchronous part is the list of its steps in   *)
(* source order, each with the value it throws (NoError when it does not); *)
(* the steps run up to the first that throws.  The last step, "await",     *)
(* hands the built query to the executor.                                  *)

Step(n, e) == [name |-> n, err |-> e]

Do(n) == << Step(n, NoError) >>

When(c, steps) == IF c THEN steps ELSE <<>>

RunSteps(steps) ==
    LET bad == { i \in DOMAIN steps : steps[i].err # NoError }
        k   == IF bad = {} THEN Len(steps) ELSE CHOOSE i \in bad : \A j \in bad : i <= j
    IN  [ log    |-> [ i \in 1..k |-> steps[i].name ],
          thrown |-> IF bad = {} THEN NoError ELSE steps[k].err ]

NoQuery ==
    [ kind |-> "none", table |-> <<>>, on |-> "", where |-> <<>>, orderBy |-> <<>>,
      hasLimit |-> FALSE, limit |-> 0, hasOffset |-> FALSE, offset |-> 0, with |-> <<>>,
      input |-> <<>>, returning |-> FALSE, onConflictDoNothing |-> FALSE ]

\* as CatchRethrow, but the message is replaced by a fixed one
CatchRethrowMasked(e) ==
    IF e.typeof = "object" /\ e.hasMessage THEN GraphQLError(<<"Internal server error">>) ELSE e

\* catch (e) of the mysql and sqlite resolvers
CatchRethrow(e) ==
    IF e.typeof = "object" /\ e.hasMessage THEN GraphQLError(e.message) ELSE e

\* no try/catch in the pg resolvers: the thrown value leaves as it is
NoCatch(e) == e

-----------------------------------------------------------------------------
VARIABLES
    dialect,   \* the builder in use
    schema,    \* the schema handed to generateSchemaData
    dbQuery,   \* db.query of the captured and of the context's database: the table keys each knows
    gen,       \* what generateSchemaData returned or threw
    cur,       \* the resolver invocation being served
    served,    \* invocations started so far
    store,     \* the executor's rows: store[t][i] is 0 (no row i) or the row's `big`
    inflight,  \* resolver invocations running at the same time, one per slot
    mapped,    \* a select's native result and what the resolver returned for it
    typeGen,   \* one call of generateTableTypes: its arguments, its work list, the types made
    filtered,  \* a where argument, the predicate compiled from it, the rows it matched
    selecting  \* an operation's selection sets, the field being resolved, the query sent for it

\* the variables of the runs of one function
units == << mapped, typeGen, filtered, selecting >>

\* the variables of the builders and their resolver invocations
mainVars == << dialect, schema, dbQuery, gen, cur, served, store, inflight >>

\* the variables that the actions of one resolver invocation at a time leave alone
aside == << inflight, units >>

vars == << dialect, schema, dbQuery, gen, cur, served, store, inflight, mapped, typeGen, filtered, selecting >>

CompiledWhere(a) == IF a.where.present THEN extractFilters(a.where) ELSE <<>>

CompiledOrder(a) == IF a.orderBy.present THEN extractOrderBy(a.orderBy) ELSE <<>>

\* orderBy: orderBy ? extractOrderBy(table, orderBy) : undefined,
\* where: where ? extractFilters(table, tableName, where) : undefined
CompileSelectArgs(a) ==
    When(a.orderBy.present, << Step("extractOrderBy", extractOrderByThrows(a.orderBy)) >>)
    \o When(a.where.present, << Step("extractFilters", extractFiltersThrows(a.where)) >>)

\* if (where) { const filters = extractFilters(...); query = query.where(filters) }
CompileWhere(a) ==
    When(a.where.present, << Step("extractFilters", extractFiltersThrows(a.where)) >>)

\* args.relations?.[relName]
RelationArgsOf(a, relName) ==
    LET hits == { k \in DOMAIN a.relations : a.relations[k].name = relName }
    IN  IF hits = {} THEN RelationArg(relName, AbsentInt, AbsentInt)
        ELSE a.relations[CHOOSE k \in hits : TRUE]

\* withFields[relName] = { columns, orderBy, where, offset, limit } for every
\* relation of the table that the selection set asks for
WithFieldsPg(t, a) ==
    LET rels == SelectSeq(RelationsOf(schema, t), LAMBDA r : r.name \in a.selection)
    IN  [ k \in 1..Len(rels) |->
            LET relationArgs == RelationArgsOf(a, rels[k].name)
            IN  [ name |-> rels[k].name, many |-> rels[k].many,
                  hasOffset |-> relationArgs.offset.present, offset |-> relationArgs.offset.value,
                  hasLimit |-> relationArgs.limit.present, limit |-> relationArgs.limit.value ] ]

\* extractRelationsParams: one entry for every requested relation field
extractRelationsParams(t, a) ==
    LET rels == SelectSeq(RelationsOf(schema, t), LAMBDA r : r.name \in a.selection)
    IN  [ k \in 1..Len(rels) |->
            [ name |-> rels[k].name, many |-> rels[k].many,
              hasOffset |-> FALSE, offset |-> 0, hasLimit |-> FALSE, limit |-> 0 ] ]

(* ---- pg ---- *)

selectArrayResolverPg(t, a) ==
    [ steps |-> Do("tableSelection") \o Do("extractSelectedColumnsFromNode")
                \o When(HasRelations(schema, t), Do("withFields"))
                \o CompileSelectArgs(a)
                \o Do("findMany") \o Do("await"),
      query |-> [NoQuery EXCEPT !.kind = "findMany", !.table = t, !.on = "captured",
                                !.where = CompiledWhere(a), !.orderBy = CompiledOrder(a),
                                !.hasOffset = a.offset.present, !.offset = a.offset.value,
                                !.hasLimit = a.limit.present, !.limit = a.limit.value,
                                !.with = WithFieldsPg(t, a)],
      catch |-> FALSE,
      then  |-> "remapArray" ]

selectSingleResolverPg(t, a) ==
    [ steps |-> Do("tableSelection") \o Do("extractSelectedColumnsFromNode")
                \o When(HasRelations(schema, t), Do("withFields"))
                \o CompileSelectArgs(a)
                \o Do("findFirst") \o Do("await"),
      query |-> [NoQuery EXCEPT !.kind = "findFirst", !.table = t, !.on = "captured",
                                !.where = CompiledWhere(a), !.orderBy = CompiledOrder(a),
                                !.hasOffset = a.offset.present, !.offset = a.offset.value,
                                !.with = WithFieldsPg(t, a)],
      catch |-> FALSE,
      then  |-> "remapSingle" ]

\* as insertArrayResolverPg, but without onConflictDoNothing()
insertArrayResolverPgStrict(t, a) ==
    LET input == remapFromGraphQLArrayInput(a.values)
    IN  [ steps |-> Do("remapFromGraphQLArrayInput")
                    \o << Step("input.length", IF Len(input) = 0 THEN GraphQLError(MsgNoValues) ELSE NoError) >>
                    \o Do("extractSelectedColumnsSQLFormat")
                    \o Do("insert") \o Do("await"),
          query |-> [NoQuery EXCEPT !.kind = "insert", !.table = t, !.on = "captured",
                                    !.input = input, !.returning = TRUE,
                                    !.onConflictDoNothing = FALSE],
          catch |-> FALSE,
          then  |-> "remapArray" ]

insertArrayResolverPg(t, a) ==
    LET input == remapFromGraphQLArrayInput(a.values)
    IN  [ steps |-> Do("remapFromGraphQLArrayInput")
                    \o << Step("input.length", IF Len(input) = 0 THEN GraphQLError(MsgNoValues) ELSE NoError) >>
                    \o Do("extractSelectedColumnsSQLFormat")
                    \o Do("insert") \o Do("await"),
          query |-> [NoQuery EXCEPT !.kind = "insert", !.table = t, !.on = "captured",
                                    !.input = input, !.returning = TRUE,
                                    !.onConflictDoNothing = TRUE],
          catch |-> FALSE,
          then  |-> "remapArray" ]

insertSingleResolverPg(t, a) ==
    LET input == remapFromGraphQLSingleInput(a.values)
    IN  [ steps |-> Do("remapFromGraphQLSingleInput")
                    \o Do("extractSelectedColumnsSQLFormat")
                    \o Do("insert") \o Do("await"),
          query |-> [NoQuery EXCEPT !.kind = "insert", !.table = t, !.on = "captured",
                                    !.input = << input >>, !.returning = TRUE,
                                    !.onConflictDoNothing = TRUE],
          catch |-> FALSE,
          then  |-> "remapFirst" ]

\* as updateResolverPg, but the emptiness test reads `set`, not the remapped input
updateResolverPgRawSet(t, a) ==
    LET input == remapFromGraphQLSingleInput(a.set)
    IN  [ steps |-> Do("extractSelectedColumnsSQLFormat")
                    \o Do("remapFromGraphQLSingleInput")
                    \o << Step("Object.keys(input).length",
                               IF Len(a.set) = 0 THEN GraphQLError(MsgNoSet) ELSE NoError) >>
                    \o Do("update")
                    \o CompileWhere(a)
                    \o Do("returning") \o Do("await"),
          query |-> [NoQuery EXCEPT !.kind = "update", !.table = t, !.on = "captured",
                                    !.input = << input >>, !.where = CompiledWhere(a),
                                    !.returning = TRUE],
          catch |-> FALSE,
          then  |-> "remapArray" ]

updateResolverPg(t, a) ==
    LET input == remapFromGraphQLSingleInput(a.set)
    IN  [ steps |-> Do("extractSelectedColumnsSQLFormat")
                    \o Do("remapFromGraphQLSingleInput")
                    \o << Step("Object.keys(input).length",
                               IF Len(input) = 0 THEN GraphQLError(MsgNoSet) ELSE NoError) >>
                    \o Do("update")
                    \o CompileWhere(a)
                    \o Do("returning") \o Do("await"),
          query |-> [NoQuery EXCEPT !.kind = "update", !.table = t, !.on = "captured",
                                    !.input = << input >>, !.where = CompiledWhere(a),
                                    !.returning = TRUE],
          catch |-> FALSE,
          then  |-> "remapArray" ]

\* as deleteResolverPg, but the filter is compiled after the query was awaited
deleteResolverPgLateWhere(t, a) ==
    [ steps |-> Do("extractSelectedColumnsSQLFormat")
                \o Do("delete")
                \o Do("returning") \o Do("await")
                \o CompileWhere(a),
      query |-> [NoQuery EXCEPT !.kind = "delete", !.table = t, !.on = "captured",
                                !.where = CompiledWhere(a), !.returning = TRUE],
      catch |-> FALSE,
      then  |-> "remapArray" ]

deleteResolverPg(t, a) ==
    [ steps |-> Do("extractSelectedColumnsSQLFormat")
                \o Do("delete")
                \o CompileWhere(a)
                \o Do("returning") \o Do("await"),
      query |-> [NoQuery EXCEPT !.kind = "delete", !.table = t, !.on = "captured",
                                !.where = CompiledWhere(a), !.returning = TRUE],
      catch |-> FALSE,
      then  |-> "remapArray" ]

(* ---- mysql ---- *)

selectArrayResolverMysql(t, a) ==
    LET dynamicDb == databaseOfContext(a.context)
    IN  [ steps |-> Do("parseResolveInfo") \o Do("databaseOfContext")
                    \o << Step("queryBase",
                               IF t \in dbQuery[dynamicDb] THEN NoError ELSE JsError(MsgTableNotFound(t))) >>
                    \o Do("extractSelectedColumnsFromTree")
                    \o CompileSelectArgs(a)
                    \o When(HasRelations(schema, t), Do("extractRelationsParams"))
                    \o Do("findMany") \o Do("await"),
          query |-> [NoQuery EXCEPT !.kind = "findMany", !.table = t, !.on = dynamicDb,
                                    !.where = CompiledWhere(a), !.orderBy = CompiledOrder(a),
                                    !.hasOffset = a.offset.present, !.offset = a.offset.value,
                                    !.hasLimit = a.limit.present, !.limit = a.limit.value,
                                    !.with = extractRelationsParams(t, a)],
          catch |-> TRUE,
          then  |-> "remapArray" ]

selectSingleResolverMysql(t, a) ==
    LET dynamicDb == databaseOfContext(a.context)
    IN  [ steps |-> Do("parseResolveInfo") \o Do("databaseOfContext")
                    \o << Step("queryBase",
                               IF t \in dbQuery[dynamicDb] THEN NoError ELSE JsError(MsgTableNotFound(t))) >>
                    \o Do("extractSelectedColumnsFromTree")
                    \o CompileSelectArgs(a)
                    \o When(HasRelations(schema, t), Do("extractRelationsParams"))
                    \o Do("findFirst") \o Do("await"),
          query |-> [NoQuery EXCEPT !.kind = "findFirst", !.table = t, !.on = dynamicDb,
                                    !.where = CompiledWhere(a), !.orderBy = CompiledOrder(a),
                                    !.hasOffset = a.offset.present, !.offset = a.offset.value,
                                    !.with = extractRelationsParams(t, a)],
          catch |-> TRUE,
          then  |-> "remapSingle" ]

\* as insertArrayResolverMysql, but without the test of input.length
insertArrayResolverMysqlUnchecked(t, a) ==
    LET input == remapFromGraphQLArrayInput(a.values)
    IN  [ steps |-> Do("remapFromGraphQLArrayInput")
                    \o Do("databaseOfContext")
                    \o Do("insert") \o Do("await"),
          query |-> [NoQuery EXCEPT !.kind = "insert", !.table = t,
                                    !.on = databaseOfContext(a.context), !.input = input],
          catch |-> TRUE,
          then  |-> "isSuccess" ]

insertArrayResolverMysql(t, a) ==
    LET input == remapFromGraphQLArrayInput(a.values)
    IN  [ steps |-> Do("remapFromGraphQLArrayInput")
                    \o << Step("input.length", IF Len(input) = 0 THEN GraphQLError(MsgNoValues) ELSE NoError) >>
                    \o Do("databaseOfContext")
                    \o Do("insert") \o Do("await"),
          query |-> [NoQuery EXCEPT !.kind = "insert", !.table = t,
                                    !.on = databaseOfContext(a.context), !.input = input],
          catch |-> TRUE,
          then  |-> "isSuccess" ]

insertSingleResolverMysql(t, a) ==
    LET input == remapFromGraphQLSingleInput(a.values)
    IN  [ steps |-> Do("remapFromGraphQLSingleInput")
                    \o Do("databaseOfContext")
                    \o Do("insert") \o Do("await"),
          query |-> [NoQuery EXCEPT !.kind = "insert", !.table = t,
                                    !.on = databaseOfContext(a.context), !.input = << input >>],
          catch |-> TRUE,
          then  |-> "isSuccess" ]

updateResolverMysql(t, a) ==
    LET input == remapFromGraphQLSingleInput(a.set)
    IN  [ steps |-> Do("remapFromGraphQLSingleInput")
                    \o << Step("Object.keys(input).length",
                               IF Len(input) = 0 THEN GraphQLError(MsgNoSet) ELSE NoError) >>
                    \o Do("databaseOfContext")
                    \o Do("update")
                    \o CompileWhere(a)
                    \o Do("await"),
          query |-> [NoQuery EXCEPT !.kind = "update", !.table = t,
                                    !.on = databaseOfContext(a.context),
                                    !.input = << input >>, !.where = CompiledWhere(a)],
          catch |-> TRUE,
          then  |-> "isSuccess" ]

deleteResolverMysql(t, a) ==
    [ steps |-> Do("databaseOfContext")
                \o Do("delete")
                \o CompileWhere(a)
                \o Do("await"),
      query |-> [NoQuery EXCEPT !.kind = "delete", !.table = t,
                                !.on = databaseOfContext(a.context), !.where = CompiledWhere(a)],
      catch |-> TRUE,
      then  |-> "isSuccess" ]

(* ---- sqlite ---- *)

selectArrayResolverSqlite(t, a) ==
    LET dynamicDb == databaseOfContext(a.context)
    IN  [ steps |-> Do("parseResolveInfo") \o Do("databaseOfContext")
                    \o << Step("queryBase",
                               IF t \in dbQuery[dynamicDb] THEN NoError ELSE JsError(MsgTableNotFound(t))) >>
                    \o Do("extractSelectedColumnsFromTree")
                    \o CompileSelectArgs(a)
                    \o When(HasRelations(schema, t), Do("extractRelationsParams"))
                    \o Do("findMany") \o Do("await"),
          query |-> [NoQuery EXCEPT !.kind = "findMany", !.table = t, !.on = dynamicDb,
                                    !.where = CompiledWhere(a), !.orderBy = CompiledOrder(a),
                                    !.hasOffset = a.offset.present, !.offset = a.offset.value,
                                    !.hasLimit = a.limit.present, !.limit = a.limit.value,
                                    !.with = extractRelationsParams(t, a)],
          catch |-> TRUE,
          then  |-> "remapArray" ]

selectSingleResolverSqlite(t, a) ==
    LET dynamicDb == databaseOfContext(a.context)
    IN  [ steps |-> Do("parseResolveInfo") \o Do("databaseOfContext")
                    \o << Step("queryBase",
                               IF t \in dbQuery[dynamicDb] THEN NoError ELSE JsError(MsgTableNotFound(t))) >>
                    \o Do("extractSelectedColumnsFromTree")
                    \o CompileSelectArgs(a)
                    \o When(HasRelations(schema, t), Do("extractRelationsParams"))
                    \o Do("findFirst") \o Do("await"),
          query |-> [NoQuery EXCEPT !.kind = "findFirst", !.table = t, !.on = dynamicDb,
                                    !.where = CompiledWhere(a), !.orderBy = CompiledOrder(a),
                                    !.hasOffset = a.offset.present, !.offset = a.offset.value,
                                    !.with = extractRelationsParams(t, a)],
          catch |-> TRUE,
          then  |-> "remapSingle" ]

\* the one resolver of the sqlite builder that inserts on `db` itself
insertArrayResolverSqlite(t, a) ==
    LET input == remapFromGraphQLArrayInput(a.values)
    IN  [ steps |-> Do("remapFromGraphQLArrayInput")
                    \o << Step("input.length", IF Len(input) = 0 THEN GraphQLError(MsgNoValues) ELSE NoError) >>
                    \o Do("parseResolveInfo")
                    \o Do("extractSelectedColumnsFromTreeSQLFormat")
                    \o Do("insert") \o Do("await"),
          query |-> [NoQuery EXCEPT !.kind = "insert", !.table = t, !.on = "captured",
                                    !.input = input, !.returning = TRUE,
                                    !.onConflictDoNothing = TRUE],
          catch |-> TRUE,
          then  |-> "remapArray" ]

insertSingleResolverSqlite(t, a) ==
    LET input == remapFromGraphQLSingleInput(a.values)
    IN  [ steps |-> Do("remapFromGraphQLSingleInput")
                    \o Do("parseResolveInfo")
                    \o Do("extractSelectedColumnsFromTreeSQLFormat")
                    \o Do("databaseOfContext")
                    \o Do("insert") \o Do("await"),
          query |-> [NoQuery EXCEPT !.kind = "insert", !.table = t,
                                    !.on = databaseOfContext(a.context),
                                    !.input = << input >>, !.returning = TRUE,
                                    !.onConflictDoNothing = TRUE],
          catch |-> TRUE,
          then  |-> "remapFirst" ]

\* as updateResolverSqlite, but returning the success flag of the mysql builder
updateResolverSqliteFlag(t, a) ==
    LET input == remapFromGraphQLSingleInput(a.set)
    IN  [ steps |-> Do("parseResolveInfo")
                    \o Do("extractSelectedColumnsFromTreeSQLFormat")
                    \o Do("remapFromGraphQLSingleInput")
                    \o << Step("Object.keys(input).length",
                               IF Len(input) = 0 THEN GraphQLError(MsgNoSet) ELSE NoError) >>
                    \o Do("databaseOfContext")
                    \o Do("update")
                    \o CompileWhere(a)
                    \o Do("returning") \o Do("await"),
          query |-> [NoQuery EXCEPT !.kind = "update", !.table = t,
                                    !.on = databaseOfContext(a.context),
                                    !.input = << input >>, !.where = CompiledWhere(a),
                                    !.returning = TRUE],
          catch |-> TRUE,
          then  |-> "isSuccess" ]

updateResolverSqlite(t, a) ==
    LET input == remapFromGraphQLSingleInput(a.set)
    IN  [ steps |-> Do("parseResolveInfo")
                    \o Do("extractSelectedColumnsFromTreeSQLFormat")
                    \o Do("remapFromGraphQLSingleInput")
                    \o << Step("Object.keys(input).length",
                               IF Len(input) = 0 THEN GraphQLError(MsgNoSet) ELSE NoError) >>
                    \o Do("databaseOfContext")
                    \o Do("update")
                    \o CompileWhere(a)
                    \o Do("returning") \o Do("await"),
          query |-> [NoQuery EXCEPT !.kind = "update", !.table = t,
                                    !.on = databaseOfContext(a.context),
                                    !.input = << input >>, !.where = CompiledWhere(a),
                                    !.returning = TRUE],
          catch |-> TRUE,
          then  |-> "remapArray" ]

deleteResolverSqlite(t, a) ==
    [ steps |-> Do("parseResolveInfo")
                \o Do("extractSelectedColumnsFromTreeSQLFormat")
                \o Do("databaseOfContext")
                \o Do("delete")
                \o CompileWhere(a)
                \o Do("returning") \o Do("await"),
      query |-> [NoQuery EXCEPT !.kind = "delete", !.table = t,
                                !.on = databaseOfContext(a.context),
                                !.where = CompiledWhere(a), !.returning = TRUE],
      catch |-> TRUE,
      then  |-> "remapArray" ]

\* the resolve function stored in the queries / mutations entry
ResolverOf(d, op, t, a) ==
    CASE d = "pg" /\ op = "selectArray"  -> selectArrayResolverPg(t, a)
      [] d = "pg" /\ op = "selectSingle" -> selectSingleResolverPg(t, a)
      [] d = "pg" /\ op = "insertArray"  -> insertArrayResolverPg(t, a)
      [] d = "pg" /\ op = "insertSingle" -> insertSingleResolverPg(t, a)
      [] d = "pg" /\ op = "update"       -> updateResolverPg(t, a)
      [] d = "pg" /\ op = "delete"       -> deleteResolverPg(t, a)
      [] d = "mysql" /\ op = "selectArray"  -> selectArrayResolverMysql(t, a)
      [] d = "mysql" /\ op = "selectSingle" -> selectSingleResolverMysql(t, a)
      [] d = "mysql" /\ op = "insertArray"  -> insertArrayResolverMysql(t, a)
      [] d = "mysql" /\ op = "insertSingle" -> insertSingleResolverMysql(t, a)
      [] d = "mysql" /\ op = "update"       -> updateResolverMysql(t, a)
      [] d = "mysql" /\ op = "delete"       -> deleteResolverMysql(t, a)
      [] d = "sqlite" /\ op = "selectArray"  -> selectArrayResolverSqlite(t, a)
      [] d = "sqlite" /\ op = "selectSingle" -> selectSingleResolverSqlite(t, a)
      [] d = "sqlite" /\ op = "insertArray"  -> insertArrayResolverSqlite(t, a)
      [] d = "sqlite" /\ op = "insertSingle" -> insertSingleResolverSqlite(t, a)
      [] d = "sqlite" /\ op = "update"       -> updateResolverSqlite(t, a)
      [] OTHER                               -> deleteResolverSqlite(t, a)

-----------------------------------------------------------------------------
(* The executor (drizzle): what a dispatched query does to the rows and    *)
(* what it resolves with.                                                  *)

RECURSIVE Ascending(_)
Ascending(ids) ==
    IF ids = {} THEN <<>>
    ELSE LET m == CHOOSE i \in ids : \A j \in ids : i <= j
         IN  << m >> \o Ascending(ids \ {m})

Take(sq, n) == [ k \in 1..(IF n < Len(sq) THEN n ELSE Len(sq)) |-> sq[k] ]

Drop(sq, n) == [ k \in 1..(IF n < Len(sq) THEN Len(sq) - n ELSE 0) |-> sq[k + n] ]

Reverse(sq) == [ k \in 1..Len(sq) |-> sq[Len(sq) + 1 - k] ]

\* the row ids of q's table that q's predicate matches
Matching(q, st) ==
    { i \in RowIds : st[q.table][i] # 0 /\ (q.where = <<>> \/ (q.where[2] = "id" /\ q.where[3] = i)) }

NativeRow(st, t, i) == [id |-> i, big |-> st[t][i], rels |-> <<>>]

ColumnValue(input, c, default) ==
    LET hits == { k \in DOMAIN input : input[k].column = c }
    IN  IF hits = {} THEN default ELSE input[CHOOSE k \in hits : TRUE].value

\* ids of an insert's rows, in input order
InsertIds(q) == [ k \in 1..Len(q.input) |-> ColumnValue(q.input[k], "id", 0) ]

\* an insert row whose id is stored already
Conflicts(q, st) == { k \in DOMAIN q.input : st[q.table][InsertIds(q)[k]] # 0 }

\* findMany / findFirst
ExecSelect(q, st) ==
    LET ids   == Ascending(Matching(q, st))
        order == IF q.orderBy # <<>> /\ q.orderBy[1][1] = "desc" THEN Reverse(ids) ELSE ids
        rest  == IF q.hasOffset /\ q.offset > 0 THEN Drop(order, q.offset) ELSE order
        cut   == IF q.kind = "findFirst" THEN Take(rest, 1)
                 ELSE IF q.hasLimit /\ q.limit >= 0 THEN Take(rest, q.limit) ELSE rest
    IN  [ rows |-> [ k \in 1..Len(cut) |-> NativeRow(st, q.table, cut[k]) ], store |-> st ]

\* insert(table).values(input)[.returning(columns).onConflictDoNothing()]
ExecInsert(q, st) ==
    LET fresh == SelectSeq([ k \in 1..Len(q.input) |-> k ], LAMBDA k : k \notin Conflicts(q, st))
        after == [ st EXCEPT ![q.table] =
                     [ i \in RowIds |->
                         LET hits == { k \in DOMAIN fresh : InsertIds(q)[fresh[k]] = i }
                         IN  IF hits = {} THEN st[q.table][i]
                             ELSE ColumnValue(q.input[fresh[CHOOSE k \in hits : TRUE]], "big", 1) ] ]
    IN  [ rows  |-> IF q.returning
                    THEN [ k \in 1..Len(fresh) |-> NativeRow(after, q.table, InsertIds(q)[fresh[k]]) ]
                    ELSE <<>>,
          store |-> after ]

\* update(table).set(input)[.where(filters)][.returning(columns)]
ExecUpdate(q, st) ==
    LET hit   == Matching(q, st)
        after == [ st EXCEPT ![q.table] =
                     [ i \in RowIds |->
                         IF i \in hit THEN ColumnValue(q.input[1], "big", st[q.table][i])
                         ELSE st[q.table][i] ] ]
        ids   == Ascending(hit)
    IN  [ rows  |-> IF q.returning
                    THEN [ k \in 1..Len(ids) |-> NativeRow(after, q.table, ids[k]) ]
                    ELSE <<>>,
          store |-> after ]

\* delete(table)[.where(filters)][.returning(columns)]
ExecDelete(q, st) ==
    LET hit == Matching(q, st)
        ids == Ascending(hit)
    IN  [ rows  |-> IF q.returning
                    THEN [ k \in 1..Len(ids) |-> NativeRow(st, q.table, ids[k]) ]
                    ELSE <<>>,
          store |-> [ st EXCEPT ![q.table] = [ i \in RowIds |-> IF i \in hit THEN 0 ELSE st[q.table][i] ] ] ]

Execute(q, st) ==
    CASE q.kind \in {"findMany", "findFirst"} -> ExecSelect(q, st)
      [] q.kind = "insert" -> ExecInsert(q, st)
      [] q.kind = "update" -> ExecUpdate(q, st)
      [] OTHER -> ExecDelete(q, st)

\* what an executor's promise rejects with: a driver error, or a value that
\* is no object
MsgRefused == <<"connect ECONNREFUSED">>
MsgDuplicate == <<"Duplicate entry for key PRIMARY">>
MsgNegative == <<"LIMIT must not be negative">>

ThrownString == [cls |-> "string", typeof |-> "string", hasMessage |-> FALSE, message |-> <<>>]

\* a negative offset or limit in the query
NegativePaging(q) == (q.hasOffset /\ q.offset < 0) \/ (q.hasLimit /\ q.limit < 0)

Rejections(q, st) ==
    { JsError(MsgRefused), ThrownString }
    \cup (IF NegativePaging(q) THEN { JsError(MsgNegative) } ELSE {})
    \cup (IF q.kind = "insert" /\ ~q.onConflictDoNothing /\ Conflicts(q, st) # {}
          THEN { JsError(MsgDuplicate) } ELSE {})

\* the query can complete: an insert without onConflictDoNothing cannot
\* when a row conflicts
CanResolve(q, st) == ~(q.kind = "insert" /\ ~q.onConflictDoNothing /\ Conflicts(q, st) # {})

-----------------------------------------------------------------------------
(* What a resolver returns once its query has resolved                     *)

NoResult == [kind |-> "none", rows |-> <<>>, isSuccess |-> FALSE]

\* return remapToGraphQLArrayOutput(result)
ReturnRemapArray(rows) ==
    [kind |-> "rows", rows |-> remapToGraphQLArrayOutput(rows), isSuccess |-> FALSE]

\* if (!result) return undefined; return remapToGraphQLSingleOutput(result)
ReturnRemapSingle(rows) ==
    IF rows = <<>> THEN [kind |-> "undefined", rows |-> <<>>, isSuccess |-> FALSE]
    ELSE [kind |-> "row", rows |-> << remapToGraphQLSingleOutput(rows[1]) >>, isSuccess |-> FALSE]

\* if (!result[0]) return undefined; return remapToGraphQLSingleOutput(result[0])
ReturnRemapFirst(rows) ==
    IF rows = <<>> THEN [kind |-> "undefined", rows |-> <<>>, isSuccess |-> FALSE]
    ELSE [kind |-> "row", rows |-> << remapToGraphQLSingleOutput(rows[1]) >>, isSuccess |-> FALSE]

\* return { isSuccess: true }
ReturnIsSuccess == [kind |-> "flag", rows |-> <<>>, isSuccess |-> TRUE]

Return(then, rows) ==
    CASE then = "remapArray"  -> ReturnRemapArray(rows)
      [] then = "remapSingle" -> ReturnRemapSingle(rows)
      [] then = "remapFirst"  -> ReturnRemapFirst(rows)
      [] OTHER                -> ReturnIsSuccess

Rethrow(catch, e) == IF catch THEN CatchRethrow(e) ELSE NoCatch(e)

-----------------------------------------------------------------------------
Idle ==
    [ pc |-> "idle", name |-> <<>>, op |-> "", table |-> <<>>, args |-> NoArgs,
      log |-> <<>>, sent |-> 0, query |-> NoQuery, catch |-> FALSE, then |-> "",
      settled |-> "none", execRows |-> <<>>, execError |-> NoError,
      result |-> NoResult, raised |-> NoError, thrown |-> NoError ]

\* the invocations that can run at the same time
Slots == {"first", "second"}

\* no select result is at hand
NotMapped == [ kind |-> "none", rows |-> <<>>, result |-> NoResult ]

\* generateTableTypes is not running
NoTypeGen ==
    [ schema |-> <<>>, withOrder |-> FALSE, limit |-> [bounded |-> TRUE, n |-> 0],
      root |-> <<>>, pending |-> <<>>, made |-> {}, reused |-> {}, status |-> "none" ]

\* a predicate of the query builder: eq(column, value), and(...), or(...),
\* not(...), or none at all
Node(op, args, column, value) == [op |-> op, args |-> args, column |-> column, value |-> value]

NoPredicate == Node("none", <<>>, "", 0)

\* no where argument is being compiled
NotFiltered ==
    [ pc |-> "none", present |-> FALSE, where |-> <<>>, fixture |-> {},
      predicate |-> NoPredicate, rows |-> {} ]

\* a field node of the operation: the scalar fields, the relation fields and
\* the relation fields inside an inline fragment that its selection set names
FieldNode(name, columns, relations, spread) ==
    [name |-> name, columns |-> columns, relations |-> relations, spread |-> spread]

NoNode == FieldNode("", {}, {}, {})

\* no select resolver is reading a selection
NotSelecting ==
    [ pc |-> "none", dialect |-> "", operation |-> <<>>, field |-> 0, relations |-> {},
      node |-> NoNode, columns |-> {}, hasWith |-> FALSE, with |-> {} ]

UnitsIdle ==
    /\ mapped = NotMapped
    /\ typeGen = NoTypeGen
    /\ filtered = NotFiltered
    /\ selecting = NotSelecting

\* one builder, generated and at rest, for the runs of one function
AtRest ==
    /\ dialect = "mysql"
    /\ schema = SchemaBlog
    /\ dbQuery = [captured |-> TableKeys(SchemaBlog), context |-> TableKeys(SchemaBlog)]
    /\ store = [ t \in TableKeys(SchemaBlog) |-> [ i \in RowIds |-> 0 ] ]
    /\ gen = generateSchemaDataMysql(TableKeys(SchemaBlog), SchemaBlog)
    /\ cur = Idle
    /\ served = 0
    /\ inflight = [ s \in Slots |-> Idle ]

\* db.query of the captured database: every table, or every table but the first
DbQueryOptions(sch) ==
    { [captured |-> TableKeys(sch), context |-> TableKeys(sch)] }
    \cup (IF sch = <<>> THEN {}
          ELSE { [captured |-> TableKeys(sch) \ {sch[1].key}, context |-> TableKeys(sch)] })

\* the rows at the start: none, or row 1 alone with big = 1
StoreOptions(sch) ==
    { [ t \in TableKeys(sch) |-> [ i \in RowIds |-> IF i = 1 THEN b ELSE 0 ] ] : b \in {0, 1} }

Init ==
    /\ dialect \in Dialects
    /\ schema \in Schemas
    /\ dbQuery \in DbQueryOptions(schema)
    /\ store \in StoreOptions(schema)
    /\ gen = NotGenerated
    /\ cur = Idle
    /\ served = 0
    /\ inflight = [ s \in Slots |-> Idle ]
    /\ UnitsIdle

\* generateSchemaData(db, schema)
Generate ==
    /\ gen.status = "none"
    /\ gen' = CASE dialect = "pg"    -> generateSchemaDataPg(dbQuery.captured, schema)
                [] dialect = "mysql" -> generateSchemaDataMysql(dbQuery.captured, schema)
                [] OTHER             -> generateSchemaDataSqlite(dbQuery.captured, schema)
    /\ UNCHANGED << dialect, schema, dbQuery, cur, served, store, aside >>

\* The GraphQL layer validates a request against the field's argument map
\* and types: every argument is declared, every entry of `relations` names a
\* field of the field's RelationArgs type and carries nested arguments that
\* field's type declares, and every selected relation is a relation of the table.
Accepts(field, a) ==
    /\ Supplied(a) \subseteq field.args
    /\ \A k \in DOMAIN a.relations :
          \E i \in DOMAIN field.types :
             /\ field.types[i].name = field.name \o a.relations[k].name \o <<"RelationArgs">>
             /\ SuppliedNested(a.relations[k]) \subseteq field.types[i].fields
    /\ \A n \in a.selection :
          \E k \in DOMAIN RelationsOf(schema, field.table) :
             RelationsOf(schema, field.table)[k].name = n

\* The GraphQL layer calls the resolve function registered under `name`
\* with arguments the field declares; the resolver runs to its await or to
\* the first throw.
\* The invocation of the field `f` with the arguments `a`, run to its await
\* or to its first throw.
Started(f, a) ==
    LET r   == ResolverOf(dialect, f.op, f.table, a)
        run == RunSteps(r.steps)
        n   == Cardinality({ i \in DOMAIN run.log : run.log[i] = "await" })
    IN  [ Idle EXCEPT
            !.pc = IF run.thrown = NoError THEN "awaiting" ELSE "failed",
            !.name = f.name, !.op = f.op, !.table = f.table, !.args = a,
            !.log = run.log, !.sent = n,
            !.query = IF n > 0 THEN r.query ELSE NoQuery,
            !.catch = r.catch, !.then = r.then,
            !.raised = run.thrown,
            !.thrown = Rethrow(r.catch, run.thrown) ]

\* the invocation after its awaited query resolved with `done`
Resolved(inv, done) ==
    [ inv EXCEPT !.pc = "returned", !.settled = "resolved",
                 !.execRows = done.rows,
                 !.log = inv.log \o << "return" >>,
                 !.result = Return(inv.then, done.rows) ]

\* the invocation after its awaited query rejected with `e`
Rejected(inv, e) ==
    [ inv EXCEPT !.pc = "failed", !.settled = "rejected",
                 !.execError = e, !.raised = e,
                 !.thrown = Rethrow(inv.catch, e) ]

Invoke(op) ==
    /\ LET fields == IF op \in {"selectArray", "selectSingle"} THEN gen.queries ELSE gen.mutations
       IN  \E name \in DOMAIN fields :
             /\ fields[name].op = op
             /\ \E a \in ArgsOf(op) :
                  /\ Accepts(fields[name], a)
                  /\ cur' = Started(fields[name], a)
    /\ served' = served + 1
    /\ UNCHANGED << dialect, schema, dbQuery, gen, store, aside >>

SelectArray ==
    /\ gen.status = "ok"
    /\ cur.pc = "idle"
    /\ served < MaxRequests
    /\ Invoke("selectArray")

SelectSingle ==
    /\ gen.status = "ok"
    /\ cur.pc = "idle"
    /\ served < MaxRequests
    /\ Invoke("selectSingle")

InsertArray ==
    /\ gen.status = "ok"
    /\ cur.pc = "idle"
    /\ served < MaxRequests
    /\ Invoke("insertArray")

InsertSingle ==
    /\ gen.status = "ok"
    /\ cur.pc = "idle"
    /\ served < MaxRequests
    /\ Invoke("insertSingle")

Update ==
    /\ gen.status = "ok"
    /\ cur.pc = "idle"
    /\ served < MaxRequests
    /\ Invoke("update")

Delete ==
    /\ gen.status = "ok"
    /\ cur.pc = "idle"
    /\ served < MaxRequests
    /\ Invoke("delete")

\* the awaited query resolves: the executor applies it and the resolver returns
ExecutorResolve ==
    /\ cur.pc = "awaiting"
    /\ CanResolve(cur.query, store)
    /\ LET done == Execute(cur.query, store)
       IN  /\ store' = done.store
           /\ cur' = Resolved(cur, done)
    /\ UNCHANGED << dialect, schema, dbQuery, gen, served, aside >>

\* as ExecutorReject, but the rejected query is dispatched again
ExecutorRejectRetry ==
    /\ cur.pc = "awaiting"
    /\ cur.sent < 2
    /\ \E e \in Rejections(cur.query, store) :
         cur' = [ cur EXCEPT !.settled = "rejected", !.execError = e,
                             !.log = cur.log \o << "await" >>, !.sent = cur.sent + 1 ]
    /\ UNCHANGED << dialect, schema, dbQuery, gen, served, store, aside >>

\* the awaited query rejects: nothing is stored, the resolver throws
ExecutorReject ==
    /\ cur.pc = "awaiting"
    /\ \E e \in Rejections(cur.query, store) :
         cur' = Rejected(cur, e)
    /\ UNCHANGED << dialect, schema, dbQuery, gen, served, store, aside >>

\* as Respond, but the generated entities are dropped with the invocation
RespondEvicting ==
    /\ cur.pc \in {"returned", "failed"}
    /\ cur' = Idle
    /\ gen' = NotGenerated
    /\ UNCHANGED << dialect, schema, dbQuery, served, store, aside >>

\* the invocation is over: its result or its error has gone to the caller
Respond ==
    /\ cur.pc \in {"returned", "failed"}
    /\ cur' = Idle
    /\ UNCHANGED << dialect, schema, dbQuery, gen, served, store, aside >>

Next ==
    \/ Generate
    \/ SelectArray
    \/ SelectSingle
    \/ InsertArray
    \/ InsertSingle
    \/ Update
    \/ Delete
    \/ ExecutorResolve
    \/ ExecutorReject
    \/ Respond

Spec == Init /\ [][Next]_vars

-----------------------------------------------------------------------------
(* Invocations running at the same time.  A resolver runs without          *)
(* interruption up to its await, so two invocations interleave only at     *)
(* their awaits: either may start, and either's query may settle, while    *)
(* the other is waiting.                                                   *)

\* the requests of the concurrent runs: a select-many or an update of one row
ConcurrentOps == {"selectArray", "update"}

ConcurrentArgs(op) ==
    { a \in ArgsOf(op) :
        /\ a.where.column # "nope" /\ a.orderBy = AbsentOrder /\ a.limit = AbsentInt
        /\ a.offset = AbsentInt /\ a.relations = <<>> /\ a.selection = {}
        /\ a.context = "plain" /\ (op = "update" => a.set = << Field("big", Str(2)) >>) }

ConcurrentFields == [ n \in DOMAIN gen.queries \cup DOMAIN gen.mutations |->
                       IF n \in DOMAIN gen.queries THEN gen.queries[n] ELSE gen.mutations[n] ]

\* as ConcurrentStart, but the compiled filter is kept in one place for all
\* invocations: an invocation that starts overwrites it for the one waiting
ConcurrentStartShared ==
    /\ gen.status = "ok"
    /\ \E s \in Slots : \E n \in DOMAIN ConcurrentFields :
         LET f == ConcurrentFields[n]
         IN  /\ inflight[s].pc = "idle"
             /\ f.op \in ConcurrentOps
             /\ \E a \in ConcurrentArgs(f.op) :
                  /\ Accepts(f, a)
                  /\ inflight' =
                        [ o \in Slots |->
                            IF o = s THEN Started(f, a)
                            ELSE IF inflight[o].pc = "awaiting"
                                 THEN [ inflight[o] EXCEPT !.query.where = Started(f, a).query.where ]
                                 ELSE inflight[o] ]
    /\ UNCHANGED << dialect, schema, dbQuery, gen, cur, served, store, units >>

\* an invocation starts in a free slot and runs to its await or its throw
ConcurrentStart ==
    /\ gen.status = "ok"
    /\ \E s \in Slots : \E n \in DOMAIN ConcurrentFields :
         LET f == ConcurrentFields[n]
         IN  /\ inflight[s].pc = "idle"
             /\ f.op \in ConcurrentOps
             /\ \E a \in ConcurrentArgs(f.op) :
                  /\ Accepts(f, a)
                  /\ inflight' = [ inflight EXCEPT ![s] = Started(f, a) ]
    /\ UNCHANGED << dialect, schema, dbQuery, gen, cur, served, store, units >>

\* the query of one waiting invocation resolves
ConcurrentResolve ==
    /\ \E s \in Slots :
         /\ inflight[s].pc = "awaiting"
         /\ CanResolve(inflight[s].query, store)
         /\ LET done == Execute(inflight[s].query, store)
            IN  /\ store' = done.store
                /\ inflight' = [ inflight EXCEPT ![s] = Resolved(inflight[s], done) ]
    /\ UNCHANGED << dialect, schema, dbQuery, gen, cur, served, units >>

\* the query of one waiting invocation rejects
ConcurrentReject ==
    /\ \E s \in Slots :
         /\ inflight[s].pc = "awaiting"
         /\ inflight' = [ inflight EXCEPT ![s] = Rejected(inflight[s], JsError(MsgRefused)) ]
    /\ UNCHANGED << dialect, schema, dbQuery, gen, cur, served, store, units >>

ConcurrentNext ==
    \/ Generate
    \/ ConcurrentStart
    \/ ConcurrentResolve
    \/ ConcurrentReject

SpecConcurrent == Init /\ [][ConcurrentNext]_vars

-----------------------------------------------------------------------------
(* Select results with relations.  The executor answers a query that asks  *)
(* for users.posts and, below it, posts.author; the resolver returns what   *)
(* remapToGraphQLArrayOutput / remapToGraphQLSingleOutput make of it.       *)

\* users found as the author of a post: no relation was asked for below
NativeAuthors == { [id |-> i, big |-> 1, rels |-> <<>>] : i \in RowIds }

\* posts with their author: none (null), or one
NativePosts ==
    { [id |-> i, big |-> 2, rels |-> << Related(<<"author">>, FALSE, a) >>] :
        i \in RowIds, a \in { <<>> } \cup { << u >> : u \in NativeAuthors } }

\* users with their posts: none (an empty array), or one
NativeUsers ==
    { [id |-> i, big |-> 1, rels |-> << Related(<<"posts">>, TRUE, ps) >>] :
        i \in RowIds, ps \in { <<>> } \cup { << q >> : q \in NativePosts } }

\* what findMany resolves with: no row, one, or two
NativeResults ==
    { <<>> } \cup { << u >> : u \in NativeUsers \cup NativePosts }
    \cup { << u, v >> : u \in NativeUsers, v \in { w \in NativeUsers : w.id = 2 } }

RemapInit ==
    /\ AtRest
    /\ typeGen = NoTypeGen
    /\ filtered = NotFiltered
    /\ selecting = NotSelecting
    /\ mapped \in { [ kind |-> k, rows |-> r, result |-> NoResult ] :
                       k \in {"findMany", "findFirst"}, r \in NativeResults }

\* const result = await query; return remapToGraphQLArrayOutput(result, ...)
ReturnSelectArray ==
    /\ mapped.kind = "findMany"
    /\ mapped.result = NoResult
    /\ mapped' = [ mapped EXCEPT !.result = ReturnRemapArray(mapped.rows) ]
    /\ UNCHANGED << mainVars, typeGen, filtered, selecting >>

\* const result = await query; if (!result) return undefined;
\* return remapToGraphQLSingleOutput(result, ...)
ReturnSelectSingle ==
    /\ mapped.kind = "findFirst"
    /\ mapped.result = NoResult
    /\ Len(mapped.rows) <= 1
    /\ mapped' = [ mapped EXCEPT !.result = ReturnRemapSingle(mapped.rows) ]
    /\ UNCHANGED << mainVars, typeGen, filtered, selecting >>

RemapNext ==
    \/ ReturnSelectArray
    \/ ReturnSelectSingle

SpecRemap == RemapInit /\ [][RemapNext]_vars

-----------------------------------------------------------------------------
(* Type generation: one call generateTableTypes(tableName, tables,         *)
(* namedRelations, withOrder, relationsDepthLimit), as a walk over the     *)
(* shapes of select types.  A shape is a table with the number of relation *)
(* hops still allowed below it (relationsDepthLimit minus the depth; no    *)
(* number when the limit is undefined).  The select type of a shape has    *)
(* the table's scalar fields and, while depth < relationsDepthLimit, one    *)
(* field per relation whose type is the shape of the target one hop        *)
(* deeper.  A shape that was generated already is reused by reference.     *)

Unlimited == [bounded |-> FALSE, n |-> 0]

Limited(k) == [bounded |-> TRUE, n |-> k]

\* relationsDepthLimit: number | undefined
DepthLimits == { Unlimited } \cup { Limited(k) : k \in 0..MaxDepthLimit }

\* users refer to their posts and to a user; posts refer to their author
SchemaTree ==
    << Tbl(users), Tbl(posts),
       Rel(<<"usersRelations">>, users,
           << Many(<<"posts">>, posts), One(<<"Single">>, users) >>),
       Rel(<<"postsRelations">>, posts, << One(<<"author">>, users) >>) >>

\* schemas whose relations refer to tables of the schema
TypeSchemas == { SchemaBlog, SchemaSelf, SchemaPlain, SchemaTree }

Shape(t, rem) == [table |-> t, rem |-> rem]

\* depth + 1
Deeper(rem) == IF rem.bounded THEN Limited(rem.n - 1) ELSE rem

\* as RelationFields, but the test is depth <= relationsDepthLimit
RelationFieldsOffByOne(sch, sh) ==
    LET rels == RelationsOf(sch, sh.table)
    IN  IF sh.rem.bounded /\ sh.rem.n < 0 THEN <<>>
        ELSE [ k \in DOMAIN rels |->
                 [ name |-> rels[k].name, many |-> rels[k].many,
                   type |-> Shape(rels[k].referencedTable, Deeper(sh.rem)) ] ]

\* the relation fields of a shape's select type: none unless
\* depth < relationsDepthLimit
RelationFields(sch, sh) ==
    LET rels == RelationsOf(sch, sh.table)
    IN  IF sh.rem.bounded /\ sh.rem.n <= 0 THEN <<>>
        ELSE [ k \in DOMAIN rels |->
                 [ name |-> rels[k].name, many |-> rels[k].many,
                   type |-> Shape(rels[k].referencedTable, Deeper(sh.rem)) ] ]

\* generateTableTypes(tableName, tables, namedRelations, withOrder, relationsDepthLimit)
\* is called for a table of the schema
TypesInit ==
    /\ AtRest
    /\ mapped = NotMapped
    /\ filtered = NotFiltered
    /\ selecting = NotSelecting
    /\ \E sch \in TypeSchemas, l \in DepthLimits, withOrder \in BOOLEAN :
         \E i \in DOMAIN tableEntries(sch) :
            typeGen = [ NoTypeGen EXCEPT
                          !.schema = sch, !.withOrder = withOrder, !.limit = l, !.root = tableEntries(sch)[i].key,
                          !.pending = << Shape(tableEntries(sch)[i].key, l) >>,
                          !.status = "running" ]

MadeShapes == { m.shape : m \in typeGen.made }

\* as GenerateType, but a shape is generated whether or not it was before
GenerateTypeAgain ==
    /\ typeGen.status = "running"
    /\ typeGen.pending # <<>>
    /\ LET sh     == Head(typeGen.pending)
           fields == RelationFields(typeGen.schema, sh)
       IN  typeGen' = [ typeGen EXCEPT
                          !.made = @ \cup { [shape |-> sh, fields |-> fields] },
                          !.pending = Tail(@) \o [ k \in DOMAIN fields |-> fields[k].type ] ]
    /\ UNCHANGED << mainVars, mapped, filtered, selecting >>

\* the next shape has no type yet: its select type is generated, and the
\* shapes of its relation fields are to be looked at
GenerateType ==
    /\ typeGen.status = "running"
    /\ typeGen.pending # <<>>
    /\ Head(typeGen.pending) \notin MadeShapes
    /\ LET sh     == Head(typeGen.pending)
           fields == RelationFields(typeGen.schema, sh)
       IN  typeGen' = [ typeGen EXCEPT
                          !.made = @ \cup { [shape |-> sh, fields |-> fields] },
                          !.pending = Tail(@) \o [ k \in DOMAIN fields |-> fields[k].type ] ]
    /\ UNCHANGED << mainVars, mapped, filtered, selecting >>

\* the next shape has its type: the type is reused by reference
ReuseType ==
    /\ typeGen.status = "running"
    /\ typeGen.pending # <<>>
    /\ Head(typeGen.pending) \in MadeShapes
    /\ typeGen' = [ typeGen EXCEPT !.reused = @ \cup { Head(typeGen.pending) },
                                   !.pending = Tail(@) ]
    /\ UNCHANGED << mainVars, mapped, filtered, selecting >>

\* nothing is left to look at: generateTableTypes returns
ReturnTypes ==
    /\ typeGen.status = "running"
    /\ typeGen.pending = <<>>
    /\ typeGen' = [ typeGen EXCEPT !.status = "done" ]
    /\ UNCHANGED << mainVars, mapped, filtered, selecting >>

TypesNext ==
    \/ GenerateType
    \/ ReuseType
    \/ ReturnTypes

\* the call runs on while it has a step to take
SpecTypes == TypesInit /\ [][TypesNext]_vars /\ WF_vars(TypesNext)

-----------------------------------------------------------------------------
(* Filters: a where argument is compiled by extractFilters and the         *)
(* predicate is evaluated by the executor over the rows of a table.  A     *)
(* filter object has one entry per column (here the operator eq) and the   *)
(* combinators AND, OR and NOT, each a list of filter objects; an absent   *)
(* key is the empty list.                                                  *)

Filter(columns, and, or, not) == [columns |-> columns, AND |-> and, OR |-> or, NOT |-> not]

Eq(column, value) == [column |-> column, eq |-> value]

\* filter objects with column keys only
ColumnFilters ==
    { Filter(c, <<>>, <<>>, <<>>) :
        c \in { <<>>, << Eq("id", 1) >>, << Eq("big", 1) >>, << Eq("id", 1), Eq("big", 1) >> } }

\* the lists a combinator is given: one or two filter objects
FilterLists ==
    { << a >> : a \in ColumnFilters } \cup { << a, b >> : a, b \in ColumnFilters }

\* one level of combinators next to the column keys
FlatFilters ==
    { Filter(c, and, or, not) :
        c \in { <<>>, << Eq("id", 2) >> },
        and \in { <<>>, << Filter(<< Eq("big", 1) >>, <<>>, <<>>, <<>>) >> },
        or \in { <<>> } \cup FilterLists,
        not \in { <<>> } \cup FilterLists }

\* combinators inside combinators
NestedFilters ==
    { Filter(<<>>, <<>>, <<>>, << Filter(<<>>, <<>>, l, <<>>) >>) : l \in FilterLists }
    \cup { Filter(<<>>, <<>>, << Filter(<<>>, <<>>, <<>>, l), a >>, <<>>) :
             l \in FilterLists, a \in ColumnFilters }

FilterTrees == ColumnFilters \cup FlatFilters \cup NestedFilters

FixtureRow(id, big) == [id |-> id, big |-> big]

\* the rows of the table
Fixtures ==
    { {},
      { FixtureRow(1, 1) },
      { FixtureRow(1, 0), FixtureRow(2, 1) },
      { FixtureRow(1, 0), FixtureRow(1, 1), FixtureRow(2, 0), FixtureRow(2, 1) } }

\* and(...parts): nothing for no part, the part itself for one
Conjunction(parts) ==
    IF parts = <<>> THEN NoPredicate
    ELSE IF Len(parts) = 1 THEN parts[1]
    ELSE Node("and", parts, "", 0)

\* the compiler, with the operator an OR list is combined by
RECURSIVE CompileFilters(_, _)
CompileFilters(f, orOp) ==
    LET each(l) == [ k \in DOMAIN l |-> CompileFilters(l[k], orOp) ]
        columns == [ k \in DOMAIN f.columns |-> Node("eq", <<>>, f.columns[k].column, f.columns[k].eq) ]
        and     == IF f.AND = <<>> THEN <<>> ELSE << Node("and", each(f.AND), "", 0) >>
        or      == IF f.OR = <<>> THEN <<>> ELSE << Node(orOp, each(f.OR), "", 0) >>
        not     == IF f.NOT = <<>> THEN <<>> ELSE << Node("not", << Node("and", each(f.NOT), "", 0) >>, "", 0) >>
    IN  Conjunction(columns \o and \o or \o not)

\* as extractFiltersTree, but the filters of an OR list are combined by and
extractFiltersAllOf(f) == CompileFilters(f, "and")

\* extractFilters(table, tableName, where): the column keys are AND-ed with
\* the AND, OR and NOT entries; NOT negates the conjunction of its list; an
\* empty filter object is no predicate
extractFiltersTree(f) == CompileFilters(f, "or")

\* the executor: does the row satisfy the predicate
RECURSIVE Satisfies(_, _)
Satisfies(row, p) ==
    CASE p.op = "none" -> TRUE
      [] p.op = "eq"   -> (IF p.column = "id" THEN row.id ELSE row.big) = p.value
      [] p.op = "and"  -> \A k \in DOMAIN p.args : Satisfies(row, p.args[k])
      [] p.op = "or"   -> \E k \in DOMAIN p.args : Satisfies(row, p.args[k])
      [] p.op = "not"  -> ~Satisfies(row, p.args[1])

\* a resolver is invoked with a where argument, or with none
FiltersInit ==
    /\ AtRest
    /\ mapped = NotMapped
    /\ typeGen = NoTypeGen
    /\ selecting = NotSelecting
    /\ \E fx \in Fixtures :
         \/ filtered = [ NotFiltered EXCEPT !.pc = "invoked", !.fixture = fx ]
         \/ \E f \in FilterTrees :
               filtered = [ NotFiltered EXCEPT !.pc = "invoked", !.fixture = fx,
                                               !.present = TRUE, !.where = f ]

\* where: where ? extractFilters(table, tableName, where) : undefined
ExtractWhere ==
    /\ filtered.pc = "invoked"
    /\ filtered' = [ filtered EXCEPT
                       !.pc = "compiled",
                       !.predicate = IF filtered.present THEN extractFiltersTree(filtered.where)
                                     ELSE NoPredicate ]
    /\ UNCHANGED << mainVars, mapped, typeGen, selecting >>

\* the executor answers with the rows that satisfy the predicate
RunWhere ==
    /\ filtered.pc = "compiled"
    /\ filtered' = [ filtered EXCEPT
                       !.pc = "done",
                       !.rows = { r \in filtered.fixture : Satisfies(r, filtered.predicate) } ]
    /\ UNCHANGED << mainVars, mapped, typeGen, selecting >>

FiltersNext ==
    \/ ExtractWhere
    \/ RunWhere

SpecFilters == FiltersInit /\ [][FiltersNext]_vars

-----------------------------------------------------------------------------
(* Selections: the select resolvers read the client's selection set to     *)
(* build the column projection and the `with` of the query.  An operation  *)
(* is the list of the field nodes of its selection set; the same query     *)
(* field may occur more than once, under different aliases.  The schema is *)
(* SchemaTree and the fields are `users` (select-many) and `usersSingle`   *)
(* (select-one) of the table users, whose relations are posts and Single.  *)

\* the table's identity column
IdentityColumn == "id"

\* relationEntries: the names of the relations declared for the table
DeclaredRelations ==
    { RelationsOf(SchemaTree, users)[k].name : k \in DOMAIN RelationsOf(SchemaTree, users) }

\* the field nodes of the two queries; one that names no column and no
\* relation selects __typename alone
FieldNodes ==
    { FieldNode(n, c, r, f) :
        n \in { "users", "usersSingle" },
        c \in { {}, {"id"}, {"id", "big"} },
        r \in SUBSET DeclaredRelations,
        f \in { {}, { <<"posts">> } } }

\* info.operation.selectionSet.selections
Operations == { << a >> : a \in FieldNodes } \cup { << a, b >> : a, b \in FieldNodes }

\* as extractSelectedColumnsFromNode, but nothing requested selects every column
extractSelectedColumnsFromNodeAll(node) ==
    IF node.columns \cap Columns = {} THEN Columns ELSE node.columns \cap Columns

\* extractSelectedColumnsFromNode(node, table): the requested fields that
\* are columns of the table; the identity column when there is none
extractSelectedColumnsFromNode(node) ==
    IF node.columns \cap Columns = {} THEN { IdentityColumn } ELSE node.columns \cap Columns

\* extractSelectedColumnsFromTree(parsedInfo.fieldsByTypeName[typeName], table)
extractSelectedColumnsFromTree(tree) ==
    IF tree.columns \cap Columns = {} THEN { IdentityColumn } ELSE tree.columns \cap Columns

\* for (const [relName, relValue] of relationEntries): an entry for every
\* declared relation that tableSelection.selectionSet.selections has a
\* FIELD node for, with args.relations?.[relName]
withFields(tableSelection, relations) ==
    { [name |-> relName, args |-> relName \in relations] :
        relName \in { r \in DeclaredRelations : r \in tableSelection.relations } }

\* a select resolver is invoked for one field node of an operation
SelectionInit ==
    /\ AtRest
    /\ mapped = NotMapped
    /\ typeGen = NoTypeGen
    /\ filtered = NotFiltered
    /\ \E o \in Operations :
         \E k \in DOMAIN o :
            \/ \E r \in { {}, { <<"posts">> } } :
                  selecting = [ NotSelecting EXCEPT !.pc = "invoked", !.dialect = "pg",
                                  !.operation = o, !.field = k, !.relations = r ]
            \/ selecting = [ NotSelecting EXCEPT !.pc = "invoked", !.dialect = "mysql",
                                !.operation = o, !.field = k ]

\* info.operation.selectionSet.selections.find(
\*     (e) => e.kind === Kind.FIELD && e.name.value === queryName)
TableSelection ==
    /\ selecting.pc = "invoked"
    /\ selecting.dialect = "pg"
    /\ LET o         == selecting.operation
           queryName == o[selecting.field].name
           found     == { k \in DOMAIN o : o[k].name = queryName }
           first     == CHOOSE k \in found : \A j \in found : k <= j
       IN  selecting' = [ selecting EXCEPT !.pc = "located", !.node = o[first] ]
    /\ UNCHANGED << mainVars, mapped, typeGen, filtered >>

\* parseResolveInfo(info, { deep: true }): the fields of the node that is
\* being resolved, by type, the fields of its fragments among them
ParseResolveInfo ==
    /\ selecting.pc = "invoked"
    /\ selecting.dialect = "mysql"
    /\ LET own == selecting.operation[selecting.field]
       IN  selecting' = [ selecting EXCEPT
                            !.pc = "located",
                            !.node = FieldNode(own.name, own.columns,
                                               own.relations \cup own.spread, {}) ]
    /\ UNCHANGED << mainVars, mapped, typeGen, filtered >>

\* queryBase.findMany / findFirst({ columns, ..., with:
\*     Object.keys(withFields).length ? withFields : undefined })
FindPg ==
    /\ selecting.pc = "located"
    /\ selecting.dialect = "pg"
    /\ LET w == withFields(selecting.node, selecting.relations)
       IN  selecting' = [ selecting EXCEPT
                            !.pc = "sent",
                            !.columns = extractSelectedColumnsFromNode(selecting.node),
                            !.hasWith = w # {},
                            !.with = w ]
    /\ UNCHANGED << mainVars, mapped, typeGen, filtered >>

\* queryBase.findMany / findFirst({ columns, ..., with: relationMap[tableName]
\*     ? extractRelationsParams(...) : undefined })
FindMysql ==
    /\ selecting.pc = "located"
    /\ selecting.dialect = "mysql"
    /\ selecting' = [ selecting EXCEPT
                        !.pc = "sent",
                        !.columns = extractSelectedColumnsFromTree(selecting.node),
                        !.hasWith = DeclaredRelations # {},
                        !.with = { [name |-> r, args |-> FALSE] :
                                     r \in DeclaredRelations \cap selecting.node.relations } ]
    /\ UNCHANGED << mainVars, mapped, typeGen, filtered >>

SelectionNext ==
    \/ TableSelection
    \/ ParseResolveInfo
    \/ FindPg
    \/ FindMysql

SpecSelection == SelectionInit /\ [][SelectionNext]_vars

-----------------------------------------------------------------------------
(* Properties *)

Invoked == cur.pc # "idle"

Mutations == {"insertArray", "insertSingle", "update", "delete"}

\* C1: an update whose remapped `set` has no keys fails with
\* 'Unable to update with no values specified!' and no query reaches the
\* executor, with or without `where` (a `where` on an unknown column included).
C1_EmptySetRejected ==
    (Invoked /\ cur.op = "update" /\ Len(remapFromGraphQLSingleInput(cur.args.set)) = 0)
    => /\ cur.pc = "failed"
       /\ cur.thrown = GraphQLError(MsgNoSet)
       /\ cur.sent = 0
       /\ cur.query = NoQuery
       /\ cur.settled = "none"

C1_Witness ==
    /\ dialect = "sqlite"
    /\ cur.op = "update"
    /\ cur.pc = "failed"
    /\ cur.args.set = << UndefinedField("big") >>
    /\ cur.args.where.present
    /\ cur.thrown = GraphQLError(MsgNoSet)

\* C2: insert-many with an empty `values` list fails with
\* 'No values were provided!' and no insert reaches the executor.
C2_EmptyValuesRejected ==
    (Invoked /\ cur.op = "insertArray" /\ cur.args.values = <<>>)
    => /\ cur.pc = "failed"
       /\ cur.thrown = GraphQLError(MsgNoValues)
       /\ cur.sent = 0
       /\ cur.query = NoQuery
       /\ cur.settled = "none"

C2_Witness ==
    /\ dialect = "mysql"
    /\ cur.op = "insertArray"
    /\ cur.args.values = <<>>
    /\ cur.pc = "failed"

\* C3: an invocation dispatches at most one query: exactly one when it
\* returns, and after the executor rejected it the invocation has failed
\* with that one query dispatched (it is not dispatched again) and an error
\* for the caller.
C3_AtMostOneQuery ==
    /\ cur.sent <= 1
    /\ cur.pc = "awaiting" => cur.sent = 1
    /\ cur.pc = "returned" => cur.sent = 1 /\ cur.settled = "resolved"
    /\ cur.settled = "rejected" =>
          /\ cur.pc = "failed"
          /\ cur.sent = 1
          /\ cur.thrown # NoError
          /\ cur.result = NoResult

C3_Witness ==
    /\ cur.op = "update"
    /\ cur.settled = "rejected"
    /\ cur.pc = "failed"
    /\ cur.sent = 1

Compiles == {"extractFilters", "extractOrderBy"}

CompileFailed ==
    /\ cur.pc = "failed"
    /\ cur.settled = "none"
    /\ cur.log # <<>>
    /\ cur.log[Len(cur.log)] \in Compiles

C4_CompileFirst ==
    (Invoked /\ cur.op \in {"selectArray", "selectSingle", "update", "delete"})
    => /\ \A i, j \in DOMAIN cur.log :
            (cur.log[i] \in Compiles /\ cur.log[j] = "await") => i < j
       /\ (cur.sent > 0 /\ cur.args.where.present) =>
            \E i \in DOMAIN cur.log : cur.log[i] = "extractFilters"
       /\ (cur.sent > 0 /\ cur.args.orderBy.present) =>
            \E i \in DOMAIN cur.log : cur.log[i] = "extractOrderBy"
       /\ CompileFailed => (cur.sent = 0 /\ cur.query = NoQuery)

\* C4: in select-many, select-one, update and delete, extractFilters and
\* extractOrderBy run before the query is awaited; when one of them throws,
\* no query was dispatched and the step leaves the stored rows as they were.
C4_CompileBeforeDispatch ==
    /\ []C4_CompileFirst
    /\ [][CompileFailed' => store' = store]_vars

C4_Witness ==
    /\ cur.op = "delete"
    /\ CompileFailed
    /\ cur.args.where.column = "nope"
    /\ \E t \in DOMAIN store : \E i \in RowIds : store[t][i] # 0

\* C5: when generation succeeds, no two operations assigned to the queries
\* map, and no two assigned to the mutations map, have the same name.
C5_OperationNamesUnique ==
    gen.status = "ok" =>
        \A i, j \in DOMAIN gen.assigned :
            (i # j /\ IsQuery(gen.assigned[i]) = IsQuery(gen.assigned[j]))
            => gen.assigned[i].name # gen.assigned[j].name

\* C6: in the pg builder, the RelationArgs input types created by
\* select-many and select-one in one generation pass have pairwise different
\* names.
C6_RelationArgsNamesUnique ==
    (dialect = "pg" /\ gen.status = "ok") =>
        \A i, j \in DOMAIN gen.created :
            i # j => gen.created[i].name # gen.created[j].name

\* C7: for every table, select-one's argument map is select-many's without
\* `limit`, and no find-first query carries a limit.
C7_SelectSingleWithoutLimit ==
    /\ gen.status = "ok" =>
         \A i, j \in DOMAIN gen.assigned :
            ( /\ gen.assigned[i].op = "selectSingle"
              /\ gen.assigned[j].op = "selectArray"
              /\ gen.assigned[i].table = gen.assigned[j].table )
            => /\ "limit" \notin gen.assigned[i].args
               /\ gen.assigned[i].args = gen.assigned[j].args \ {"limit"}
    /\ cur.query.kind = "findFirst" => ~cur.query.hasLimit

\* C8: in pg and sqlite, insert-many, update and delete return the remapped
\* rows the executor resolved with; in mysql every mutation that returns,
\* returns {isSuccess: true}, and one that fails returns nothing and throws.
C8_MutationResponseShape ==
    (Invoked /\ cur.op \in Mutations)
    => /\ (cur.pc = "returned" /\ dialect \in {"pg", "sqlite"}
              /\ cur.op \in {"insertArray", "update", "delete"})
          => cur.result = [kind |-> "rows", rows |-> remapToGraphQLArrayOutput(cur.execRows),
                           isSuccess |-> FALSE]
       /\ (cur.pc = "returned" /\ dialect = "mysql")
          => (cur.result.kind = "flag" /\ cur.result.isSuccess)
       /\ cur.result.kind = "flag" => (dialect = "mysql" /\ cur.result.isSuccess)
       /\ cur.pc = "failed" => (cur.result = NoResult /\ cur.thrown # NoError)

C8_Witness ==
    /\ dialect = "sqlite"
    /\ cur.op = "update"
    /\ cur.pc = "returned"
    /\ cur.execRows # <<>>

C10_TableNotFoundOnlyAtGeneration ==
    /\ ~(cur.pc = "failed" /\ IsTableNotFound(cur.thrown))
    /\ (\E i \in DOMAIN schema :
            schema[i].kind = "table" /\ schema[i].key \notin dbQuery.captured)
       => gen.status # "ok"

\* An error raised by a throw statement of the builder, with a message that
\* names what is wrong; the runtime's TypeError of reading a property of
\* undefined is none.
Descriptive(e) == e.cls \in {"Error", "GraphQLError"} /\ e.hasMessage

\* C11: a schema with a relation whose target table, or a relations
\* declaration whose owning table, is not among its tables fails
\* generateSchemaData with a descriptive error; no resolver is returned and
\* no query runs.
C11_DanglingRelationFailsGeneration ==
    (DanglingOwner(schema) \/ DanglingTarget(schema)) =>
        /\ gen.status # "ok"
        /\ gen.status = "failed" => Descriptive(gen.error)
        /\ gen.queries = <<>> /\ gen.mutations = <<>>
        /\ cur.sent = 0

Inserts == {"insertArray", "insertSingle"}

\* the ids of an insert's rows that are not stored yet, in input order
FreshIds(q, st) ==
    LET ids == [ k \in 1..Len(q.input) |->
                   LET c == { j \in DOMAIN q.input[k] : q.input[k][j].column = "id" }
                   IN  q.input[k][CHOOSE j \in c : TRUE].value ]
    IN  SelectSeq(ids, LAMBDA i : st[q.table][i] = 0)

\* C12: in pg and sqlite an insert whose row conflicts with a stored row
\* raises no error for the conflict; insert-many returns exactly the rows that
\* were inserted, insert-one returns undefined when its row conflicts, and a
\* stored row is left as it was.
C12_ConflictSkipped ==
    [][ (dialect \in {"pg", "sqlite"} /\ cur.pc = "awaiting" /\ cur.op \in Inserts) =>
          /\ cur'.execError # JsError(MsgDuplicate)
          /\ cur'.pc = "returned" =>
               LET fresh == FreshIds(cur.query, store)
                   t     == cur.query.table
               IN  /\ \A i \in RowIds : store[t][i] # 0 => store'[t][i] = store[t][i]
                   /\ \A i \in RowIds : store'[t][i] # 0 <=>
                         (store[t][i] # 0 \/ \E k \in DOMAIN fresh : fresh[k] = i)
                   /\ cur.op = "insertArray" =>
                         /\ cur'.result.kind = "rows"
                         /\ [ k \in DOMAIN cur'.result.rows |-> cur'.result.rows[k].id ] = fresh
                   /\ cur.op = "insertSingle" =>
                         IF fresh = <<>> THEN cur'.result.kind = "undefined"
                         ELSE /\ cur'.result.kind = "row"
                              /\ cur'.result.rows[1].id = fresh[1] ]_vars

\* insert-many of the rows 1 and 2 into a table that holds row 1 returned row 2 alone
C12_Witness ==
    /\ dialect = "sqlite"
    /\ cur.op = "insertArray"
    /\ cur.pc = "returned"
    /\ Len(cur.args.values) = 2
    /\ Len(cur.result.rows) = 1
    /\ cur.result.rows[1].id = 2
    /\ store[cur.table][1] = 1

\* C13: what generateSchemaData built (the queries and mutations maps, the
\* created and registered types) and the schema it captured are set once, by
\* generateSchemaData, and no resolver invocation changes them.
C13_GeneratedEntitiesFrozen ==
    [][ /\ gen.status # "none" => gen' = gen
        /\ schema' = schema
        /\ dialect' = dialect
        /\ dbQuery' = dbQuery ]_vars

\* a second invocation has changed rows, after a first one was served
C13_Witness ==
    /\ gen.status = "ok"
    /\ served = 2
    /\ cur.op = "delete"
    /\ cur.pc = "returned"
    /\ cur.execRows # <<>>

Selects == {"selectArray", "selectSingle"}

\* C15: the offset and the limit of a dispatched find-many or find-first
\* query are never negative.
C15_NonNegativePaging ==
    (cur.sent > 0 /\ cur.op \in Selects) =>
        /\ cur.query.hasOffset => cur.query.offset >= 0
        /\ cur.query.hasLimit => cur.query.limit >= 0

\* C16: in the pg builder the nested argument type of a relation declares
\* `limit` exactly when the relation is of cardinality many (where, orderBy
\* and offset always), and no `with` entry of a dispatched query carries a
\* limit for a relation of cardinality one.
C16_RelationLimitOnlyWhenMany ==
    /\ (dialect = "pg" /\ gen.status = "ok") =>
          \A i \in DOMAIN gen.assigned :
             LET g    == gen.assigned[i]
                 rels == RelationsOf(schema, g.table)
             IN  g.op \in Selects =>
                   \A k \in DOMAIN rels :
                      \E j \in DOMAIN g.types :
                         /\ g.types[j].name = g.name \o rels[k].name \o <<"RelationArgs">>
                         /\ g.types[j].fields =
                               {"where", "orderBy", "offset"}
                               \cup (IF rels[k].many THEN {"limit"} ELSE {})
    /\ (dialect = "pg" /\ cur.sent > 0) =>
          \A k \in DOMAIN cur.query.with :
             ~cur.query.with[k].many => ~cur.query.with[k].hasLimit

\* a query was dispatched with a `with` entry for a relation of cardinality
\* one whose nested arguments were supplied
C16_Witness ==
    /\ dialect = "pg"
    /\ cur.pc = "awaiting"
    /\ cur.args.relations # <<>>
    /\ cur.query.with # <<>>
    /\ ~cur.query.with[1].many
    /\ cur.query.with[1].hasOffset

\* the query an invocation of the field named `inv.name` with the arguments
\* `inv.args` dispatches when it runs alone
AloneQuery(inv) == ResolverOf(dialect, inv.op, inv.table, inv.args).query

RECURSIVE RelationsKept(_, _)
RelationsKept(row, out) ==
    /\ DOMAIN out.rels = DOMAIN row.rels
    /\ \A k \in DOMAIN row.rels :
          LET r == row.rels[k]  o == out.rels[k]
          IN  /\ o.name = r.name
              /\ o.isNull <=> (~r.many /\ r.rows = <<>>)
              /\ r.many => ~o.isNull
              /\ Len(o.items) = Len(r.rows)
              /\ \A j \in DOMAIN r.rows : RelationsKept(r.rows[j], o.items[j])

\* C17: in what a select returns, every requested relation is present at
\* every depth: a relation of cardinality one without a related row is null,
\* a relation of cardinality many without related rows is the empty list and
\* never null.
C17_EmptyRelationsRemapped ==
    mapped.result.kind \in {"rows", "row"} =>
        /\ Len(mapped.result.rows) = (IF mapped.result.kind = "row" THEN 1 ELSE Len(mapped.rows))
        /\ \A k \in DOMAIN mapped.result.rows :
              RelationsKept(mapped.rows[k], mapped.result.rows[k])

\* a user with one post whose author is null, next to a user without posts
C17_Witness ==
    /\ mapped.result.kind = "rows"
    /\ Len(mapped.result.rows) = 2
    /\ mapped.result.rows[1].rels[1].items # <<>>
    /\ mapped.result.rows[1].rels[1].items[1].rels[1].isNull
    /\ mapped.result.rows[2].rels[1].items = <<>>
    /\ ~mapped.result.rows[2].rels[1].isNull


\* the types that a path of k relation fields from the root's select type ends in
RECURSIVE ShapesAtHop(_)
ShapesAtHop(k) ==
    IF k = 0 THEN { Shape(typeGen.root, typeGen.limit) }
    ELSE UNION { { m.fields[i].type : i \in DOMAIN m.fields } :
                   m \in { x \in typeGen.made : x.shape \in ShapesAtHop(k - 1) } }

\* C18: with relationsDepthLimit N, no relation field of the select type
\* generated for a table is reachable by more than N relation hops from the
\* root: none at all for N = 0, none on a related type for N = 1.
C18_DepthLimitRespected ==
    (typeGen.status # "none" /\ typeGen.limit.bounded) =>
        ShapesAtHop(typeGen.limit.n + 1) = {}

\* a cyclic schema was generated with a limit of one hop or more, and the
\* root's type has relation fields as deep as the limit allows
C18_Witness ==
    /\ typeGen.status = "done"
    /\ typeGen.limit.bounded
    /\ typeGen.limit.n >= 1
    /\ typeGen.schema = SchemaBlog
    /\ ShapesAtHop(typeGen.limit.n) # {}

\* C19: type generation for a schema terminates, for cyclic schemas and for
\* an undefined relationsDepthLimit too.
C19_TypeGenerationTerminates == <>(typeGen.status = "done")

\* generation of a cyclic schema with no limit returned, and a type was
\* reused where the cycle closed
C19_Witness ==
    /\ typeGen.status = "done"
    /\ ~typeGen.limit.bounded
    /\ typeGen.schema \in { SchemaBlog, SchemaSelf, SchemaTree }
    /\ typeGen.reused # {}


\* the Boolean reading of a filter object on a row
RECURSIVE Reads(_, _)
Reads(f, row) ==
    /\ \A k \in DOMAIN f.columns :
          (IF f.columns[k].column = "id" THEN row.id ELSE row.big) = f.columns[k].eq
    /\ f.AND # <<>> => \A k \in DOMAIN f.AND : Reads(f.AND[k], row)
    /\ f.OR # <<>> => \E k \in DOMAIN f.OR : Reads(f.OR[k], row)
    /\ f.NOT # <<>> => ~(\A k \in DOMAIN f.NOT : Reads(f.NOT[k], row))

IsOnly(f, key) ==
    /\ f.columns = <<>>
    /\ \A k \in { "AND", "OR", "NOT" } : (f[k] # <<>>) <=> (k = key)

\* C20: the rows matched by the compiled predicate are the rows of the
\* fixture on which the filter tree reads true: the keys of one filter
\* object are AND-ed, OR: [A, B] matches the union of A and B, NOT: [A]
\* matches exactly the rows A does not match, and an empty filter object
\* matches all rows.
C20_FilterMatchesBooleanReading ==
    (filtered.pc = "done" /\ filtered.present) =>
        LET f   == filtered.where
            of(g) == { r \in filtered.fixture : Reads(g, r) }
        IN  /\ filtered.rows = of(f)
            /\ f = Filter(<<>>, <<>>, <<>>, <<>>) => filtered.rows = filtered.fixture
            /\ (IsOnly(f, "OR") /\ Len(f.OR) = 2) =>
                  filtered.rows = of(f.OR[1]) \cup of(f.OR[2])
            /\ (IsOnly(f, "NOT") /\ Len(f.NOT) = 1) =>
                  filtered.rows = filtered.fixture \ of(f.NOT[1])

\* a filter with a column key next to an OR of two filters and a NOT was
\* compiled and matched some rows of the fixture and not others
C20_Witness ==
    /\ filtered.pc = "done"
    /\ filtered.present
    /\ filtered.where.columns # <<>>
    /\ Len(filtered.where.OR) = 2
    /\ filtered.where.NOT # <<>>
    /\ filtered.rows # {}
    /\ filtered.rows # filtered.fixture


\* C23: in the mysql and sqlite builders every query a resolver dispatches
\* is issued on databaseOfContext(db, context), never on the database
\* captured at generation time.
C23_QueriesOnContextDatabase ==
    (cur.sent > 0 /\ dialect \in {"mysql", "sqlite"}) =>
        cur.query.on = databaseOfContext(cur.args.context)


\* the field node the invocation resolves
Own == selecting.operation[selecting.field]

\* no earlier node of the operation has the name of the resolved one
FirstOfName ==
    \A k \in 1..(selecting.field - 1) : selecting.operation[k].name # Own.name

WithNames == { w.name : w \in selecting.with }

C22_WithIsSelectedRelations ==
    (selecting.pc = "sent" /\ selecting.dialect = "pg" /\ Len(selecting.operation) = 1) =>
        /\ WithNames = DeclaredRelations \cap (Own.relations \cup Own.spread)
        /\ selecting.hasWith <=> (Own.relations \cup Own.spread) # {}

\* C24: in the pg select resolvers the projection and the relations of the
\* query sent for an invocation are those of the selection set of the field
\* node the invocation resolves, also when the operation has the same query
\* field twice, under two aliases, with different selection sets.
C24_OccurrenceOwnSelection ==
    ( /\ selecting.pc = "sent"
      /\ selecting.dialect = "pg"
      /\ \A k \in DOMAIN selecting.operation : selecting.operation[k].spread = {} ) =>
        /\ selecting.columns = extractSelectedColumnsFromNode(Own)
        /\ WithNames = Own.relations

====
